---- MODULE Spec2Model ----
(***************************************************************************)
(* FarmSense OS hub: forensic measurement ledger, valve dispatcher,        *)
(* grid/decision cycle and hub<->mirror synchronisation, modelled from     *)
(* "farmsense drafts/FarmSenseOS/src".                                     *)
(*                                                                         *)
(* Units: VWC is an integer count of 1e-7 (so 0.2 = 2000000); timestamps   *)
(* of the ledger are whole hours of `clock`; the sync protocol measures    *)
(* seconds.  A SHA-256 digest is modelled as the canonical tuple that is   *)
(* hashed (an injective, collision-free hash), the genesis digest as <<>>. *)
(***************************************************************************)
EXTENDS Integers, Sequences, FiniteSets, TLC

VARIABLES
    \* --- TimeSeriesStore (persistence/timeseries.py) ---
    measurements,      \* rows of table `measurements` in id order (raw_data dicts)
    chain_state,       \* row id=1 of table `chain_state`
    last_stored,       \* return value of the last store call (-1: none yet)
    offered_duplicate, \* the last store_measurement call was handed a stored hash
    archive,           \* archive_YYYYMM.gz files: name -> records in the file
    deleted,           \* rows archive_old_data has deleted from the table, in order
    analysis,          \* the last call of analyze_zone_for_irrigation and its result
    connection,        \* a ResilientConnection: its transmit queue, acknowledgements awaited, batch in flight
    merkle,            \* the last batch Merkle root computed: by which code, over which hashes
    irrigation_timer,  \* minutes since each zone's 'started_at', and the beat of the wall clock
    cycle_report,      \* what the last run of _generate_all_grids did: fields skipped for lack of measurements, exception raised
    kriging_runs,      \* the inputs of generate_virtual_grid and the grids returned for them
    bayesian_filter,   \* RecursiveBayesianFilter: coefficients, last_predictions, counters
    connect_returned,  \* run() has awaited cloud_sync.connect(): the loops run
    to_sync,           \* records the measurement cycle has still to offer the mirror
    mirror_sent,       \* messages written to the websocket, in order
    delivered,         \* how many of them the mirror has received
    verify_result,     \* last report of ForensicHasher.verify_chain_integrity
    clock,             \* datetime.utcnow() of the ledger, in hours
    \* --- VRIController (vri/controller.py) ---
    valve_states,      \* self.valve_states
    active_irrigation, \* self.active_irrigation : zone_id -> valve_id
    pending,           \* valve commands awaiting _send_valve_command
    audit_log,         \* AuditLogger events (event_type, user_id)
    \* --- FarmSenseEngine (farmsense_engine.py) ---
    last_decision,     \* status of the decision of the last grid cycle, per field
    grid_store,        \* snapshots written by VirtualGridStore.store_grid
    statistics,        \* self.statistics counters of the grid cycle
    is_cloud_controlled,
    \* --- CloudSyncProtocol (persistence/sync.py) ---
    sync_state,        \* self.state
    elapsed,           \* utcnow() - last_heartbeat_ack, seconds
    hb_pc,             \* position of task _heartbeat_loop
    sleep_left,        \* remaining seconds of the heartbeat sleep
    rx_pc,             \* position of task _receive_loop
    inbox,             \* messages of the mirror not yet received
    period_entries,    \* timeout entries into FAILOVER_ACTIVE since the last heartbeat_ack
    period_callbacks   \* failover callbacks since the last heartbeat_ack

ledgerVars == <<measurements, chain_state, last_stored, offered_duplicate,
                verify_result, clock>>
archiveVars == <<archive, deleted>>
mirrorVars == <<connect_returned, to_sync, mirror_sent, delivered>>
vriVars    == <<valve_states, active_irrigation, pending>>
engineVars == <<last_decision, statistics, grid_store>>
syncVars   == <<sync_state, elapsed, hb_pc, sleep_left, rx_pc, inbox,
                period_entries, period_callbacks, is_cloud_controlled>>
vars == <<ledgerVars, connection, merkle, irrigation_timer, cycle_report, kriging_runs, bayesian_filter, archiveVars, analysis, mirrorVars, vriVars, engineVars, syncVars,
          audit_log>>

(***************************************************************************)
(* Bounds of the model                                                     *)
(***************************************************************************)
MaxRecords == 3      \* rows the measurement table may hold
MaxClock   == 2      \* hours the ledger clock may advance
MaxDays    == 2      \* single days that may pass besides the retention period
MaxZoneCells == 2    \* grid cells of a zone handed to the analysis
MaxStateSyncs == 2   \* state_sync messages the cloud sync loop may send
MaxRuns == 2         \* runs of generate_virtual_grid on one list of readings
MaxSnapshots == 2    \* snapshots written to the grid store by its callers
MaxPredictions == 3  \* predict calls on the filter
MaxFilterUpdates == 2 \* coefficient updates through RecursiveBayesianFilter.update
MaxHalvings == 2     \* observations folded into one cached prediction
MaxSoilUpdates == 100 \* updates of one zone's coefficients by update_from_residual
MaxDenominator == 401 \* largest denominator of the texture ratios that is stepped
MaxAudit   == 3      \* audit events kept
MaxInbox   == 2      \* mirror messages in flight
MaxSilence == 65     \* cap of `elapsed`, seconds (twice the timeout and one beat)
MaxPeriod  == 2      \* cap of the per-silence-period counters

(***************************************************************************)
(* Forensic hasher (forensic/integrity.py)                                 *)
(***************************************************************************)
GENESIS == <<>>
NULL    == -1
ABSENT  == -2

\* round(vwc, 6): nearest multiple of 1e-6, ties to even
Round6(v) ==
    LET q == v \div 10
        r == v % 10
    IN  IF r < 5 THEN q * 10
        ELSE IF r > 5 THEN (q + 1) * 10
        ELSE IF q % 2 = 0 THEN q * 10 ELSE (q + 1) * 10

\* data[key] for the allowed keys that are `in additional_data`
AllowedValue(additional_data, key) ==
    IF key \in DOMAIN additional_data THEN additional_data[key] ELSE ABSENT

hash_measurement(sensor_id, timestamp, depth_inches, vwc, previous_hash, additional_data) ==
    << sensor_id, timestamp, depth_inches, Round6(vwc), previous_hash,
       AllowedValue(additional_data, "soil_temp_c"),
       AllowedValue(additional_data, "water_potential"),
       AllowedValue(additional_data, "signal_quality") >>

create_measurement_with_integrity(sensor_id, depth_inches, vwc, previous_hash, soil_temp_c, water_potential, timestamp) ==
    [ sensor_id                |-> sensor_id,
      timestamp                |-> timestamp,
      depth_inches             |-> depth_inches,
      volumetric_water_content |-> vwc,
      soil_temperature_c       |-> soil_temp_c,
      soil_water_potential     |-> water_potential,
      measurement_hash         |-> hash_measurement(sensor_id, timestamp, depth_inches,
                                       vwc, previous_hash,
                                       [soil_temp_c |-> soil_temp_c,
                                        water_potential |-> water_potential]),
      previous_hash            |-> previous_hash,
      signal_quality           |-> 10 ]

RECURSIVE VerifyFold(_, _, _, _)
\* the loop of verify_chain_integrity: <<final previous_hash, valid_hashes>>
VerifyFold(ms, i, previous_hash, valid_hashes) ==
    IF i > Len(ms) THEN <<previous_hash, valid_hashes>>
    ELSE LET m == ms[i]
             computed_hash == hash_measurement(m.sensor_id, m.timestamp, m.depth_inches,
                                  m.volumetric_water_content, previous_hash, m)
         IN  VerifyFold(ms, i + 1, computed_hash,
                        IF computed_hash = m.measurement_hash
                        THEN valid_hashes + 1 ELSE valid_hashes)

verify_chain_integrity(ms, expected_first_hash, expected_last_hash) ==
    IF ms = <<>>
    THEN [ ran |-> TRUE, valid |-> FALSE, chain_length |-> 0, valid_hashes |-> 0,
           expected_final_hash |-> expected_last_hash,
           computed_final_hash |-> expected_first_hash, chain_intact |-> FALSE ]
    ELSE LET f == VerifyFold(ms, 1, expected_first_hash, 0)
             chain_valid == f[1] = expected_last_hash
         IN  [ ran |-> TRUE,
               valid |-> chain_valid /\ f[2] = Len(ms),
               chain_length |-> Len(ms), valid_hashes |-> f[2],
               expected_final_hash |-> expected_last_hash,
               computed_final_hash |-> f[1], chain_intact |-> chain_valid ]

NoReport ==
    [ ran |-> FALSE, valid |-> FALSE, chain_length |-> 0, valid_hashes |-> 0,
      expected_final_hash |-> GENESIS, computed_final_hash |-> GENESIS,
      chain_intact |-> FALSE ]

(***************************************************************************)
(* Sensor network of the hub and the readings it can deliver               *)
(***************************************************************************)
Fields == <<"field_01", "field_02">>

\* FarmSenseEngine._configure_pilot_sensors, reduced to the master probe of the
\* first field; the second field has no probe installed
SensorNetwork ==
    << [sensor_id |-> "field_01_master", field_id |-> "field_01",
        installed_depths_inches |-> <<18, 42>>] >>

\* the (sensor, depth) pairs in the order the measurement cycle visits them
RECURSIVE ProbePoints(_, _)
ProbePoints(i, j) ==
    IF i > Len(SensorNetwork) THEN <<>>
    ELSE IF j > Len(SensorNetwork[i].installed_depths_inches) THEN ProbePoints(i + 1, 1)
    ELSE << [sensor_id |-> SensorNetwork[i].sensor_id,
             depth_inches |-> SensorNetwork[i].installed_depths_inches[j]] >>
         \o ProbePoints(i, j + 1)

Probes == ProbePoints(1, 1)

\* volumetric water content a probe may report: 0.2000004 and 0.50
VWCReadings == {2000004, 5000000}

\* volumetric water content a caller of the store may put in a record: the
\* readings of the probes, and 1.2
OfferedVwc == VWCReadings \cup {12000000}

\* soil_temp_c = 15.0 + (20 - depth) * 0.2, in tenths of a degree
SoilTemp(depth) == 150 + (20 - depth) * 2

(***************************************************************************)
(* Batch Merkle roots (forensic/integrity.py, models/measurement.py)       *)
(*                                                                         *)
(* A parent hash sha256((left + right).encode()) is the triple             *)
(* <<"sha256", left, right>>: two digests of 64 characters determine their *)
(* concatenation and the concatenation determines them.                    *)
(***************************************************************************)
MaxBatch == 3        \* measurements of a batch

sha256_concat(left, right) == <<"sha256", left, right>>

\* hashlib.sha256(b"empty").hexdigest()
sha256_empty == <<"sha256", "empty">>

\* one pass of the for loop over range(0, len(current_level), 2)
next_level(current_level) ==
    [ i \in 1..((Len(current_level) + 1) \div 2) |->
        LET left  == current_level[2 * i - 1]
            right == IF 2 * i <= Len(current_level) THEN current_level[2 * i] ELSE left
        IN  sha256_concat(left, right) ]

\* while len(current_level) > 1: current_level = next_level
RECURSIVE pairwise_root(_)
pairwise_root(current_level) ==
    IF Len(current_level) > 1 THEN pairwise_root(next_level(current_level))
    ELSE current_level[1]

\* ForensicHasher._compute_merkle_root
compute_merkle_root(hashes) ==
    IF hashes = <<>> THEN GENESIS
    ELSE IF Len(hashes) = 1 THEN hashes[1]
    ELSE pairwise_root(hashes)

\* the hashes hash_batch gives the measurements: each one chained to the one
\* before it, the first to previous_hash
RECURSIVE measurement_hashes(_, _)
measurement_hashes(batch, current_previous) ==
    IF batch = <<>> THEN <<>>
    ELSE LET m_hash == hash_measurement(Head(batch).sensor_id, Head(batch).timestamp,
                           Head(batch).depth_inches, Head(batch).volumetric_water_content,
                           current_previous, Head(batch))
         IN  <<m_hash>> \o measurement_hashes(Tail(batch), m_hash)

\* ForensicHasher.hash_batch: the hashes of the measurements and the
\* merkle_root returned (the batch hash is not modelled)
hash_batch(batch, previous_hash) ==
    IF batch = <<>>
    THEN [ hashes |-> <<>>, merkle_root |-> previous_hash ]
    ELSE LET hs == measurement_hashes(batch, previous_hash)
         IN  [ hashes |-> hs, merkle_root |-> compute_merkle_root(hs) ]

\* MeasurementPoint.compute_hash of a point without temperature and potential
\* and with the default signal_quality 1.0 and previous_hash
compute_hash_of_point(m) ==
    << "point", m.sensor_id, m.depth_inches, m.timestamp,
       Round6(m.volumetric_water_content), NULL, NULL, 10000, GENESIS >>

\* MeasurementBatch.compute_merkle_root
batch_compute_merkle_root(batch) ==
    IF batch = <<>>
    THEN [ hashes |-> <<>>, merkle_root |-> sha256_empty ]
    ELSE LET hs == [ i \in 1..Len(batch) |-> compute_hash_of_point(batch[i]) ]
         IN  [ hashes |-> hs, merkle_root |-> pairwise_root(hs) ]

\* the measurements a batch may hold: one probe depth, any offered reading
BatchMeasurement(vwc) ==
    [ sensor_id |-> Probes[1].sensor_id, timestamp |-> 0,
      depth_inches |-> Probes[1].depth_inches, volumetric_water_content |-> vwc ]

Batches ==
    UNION { [1..n -> {BatchMeasurement(vwc) : vwc \in OfferedVwc}] : n \in 0..MaxBatch }

\* the hash a batch may be chained to: the genesis hash or the hash of a record
PreviousHashes ==
    { GENESIS,
      hash_measurement(Probes[1].sensor_id, 0, Probes[1].depth_inches, 5000000,
                       GENESIS, BatchMeasurement(5000000)) }

\* a caller computes the Merkle root of a list of measurement hashes
ComputeMerkleRoot(batch) ==
    /\ LET hs == measurement_hashes(batch, GENESIS)
       IN  merkle' = [ op |-> "_compute_merkle_root", hashes |-> hs,
                       previous_hash |-> GENESIS,
                       merkle_root |-> compute_merkle_root(hs) ]
    /\ UNCHANGED <<connection, irrigation_timer, cycle_report, kriging_runs, bayesian_filter, ledgerVars, archiveVars, analysis, mirrorVars, vriVars, engineVars, syncVars, audit_log>>

\* a caller hashes a batch chained to previous_hash
HashBatch(batch, previous_hash) ==
    /\ LET r == hash_batch(batch, previous_hash)
       IN  merkle' = [ op |-> "hash_batch", hashes |-> r.hashes,
                       previous_hash |-> previous_hash, merkle_root |-> r.merkle_root ]
    /\ UNCHANGED <<connection, irrigation_timer, cycle_report, kriging_runs, bayesian_filter, ledgerVars, archiveVars, analysis, mirrorVars, vriVars, engineVars, syncVars, audit_log>>

\* a caller asks a MeasurementBatch for its Merkle root
BatchComputeMerkleRoot(batch) ==
    /\ LET r == batch_compute_merkle_root(batch)
       IN  merkle' = [ op |-> "MeasurementBatch.compute_merkle_root", hashes |-> r.hashes,
                       previous_hash |-> GENESIS, merkle_root |-> r.merkle_root ]
    /\ UNCHANGED <<connection, irrigation_timer, cycle_report, kriging_runs, bayesian_filter, ledgerVars, archiveVars, analysis, mirrorVars, vriVars, engineVars, syncVars, audit_log>>

(***************************************************************************)
(* ResilientConnection (backend/app/edge/network_optimizer.py)             *)
(*                                                                         *)
(* A message is its message_id (the number of its enqueue call), priority, *)
(* length of payload and retry_count.  flush is suspended in               *)
(* `await self._transmit(batch_payload)` with its batch taken off the      *)
(* queue; one flush runs at a time.                                        *)
(***************************************************************************)
MaxEnqueued == 3     \* enqueue calls on the connection

Priorities     == {0, 2}             \* 0=emergency, 2=normal
PayloadSizes   == {100, 64000}       \* len(payload)
MaxBatchSizes  == {2, 100}           \* max_batch_size of a flush call
max_batch_bytes == 64000
max_retries     == 3

\* the index enqueue inserts at: before the first message of a larger
\* priority number, 0 when there is none
RECURSIVE insert_index(_, _, _)
insert_index(queue, priority, i) ==
    IF i > Len(queue) THEN 0
    ELSE IF queue[i].priority > priority THEN i
    ELSE insert_index(queue, priority, i + 1)

\* ResilientConnection.enqueue
enqueue(queue, msg) ==
    LET i == insert_index(queue, msg.priority, 1)
    IN  IF i = 0 THEN Append(queue, msg)
        ELSE SubSeq(queue, 1, i - 1) \o <<msg>> \o SubSeq(queue, i, Len(queue))

\* the while loop of flush: popleft into the batch up to max_batch_size
\* messages and max_batch_bytes bytes
RECURSIVE build_batch(_, _, _, _)
build_batch(queue, batch, total_size, max_batch_size) ==
    IF queue # <<>> /\ Len(batch) < max_batch_size /\ total_size < max_batch_bytes
    THEN build_batch(Tail(queue), Append(batch, Head(queue)),
                     total_size + Head(queue).payload_len + 32, max_batch_size)
    ELSE [ message_queue |-> queue, batch |-> batch ]

\* the re-queue loop of a failed flush: every message of the batch, in the
\* order of the batch, is put at the left end unless it was tried 3 times
RECURSIVE requeue(_, _)
requeue(queue, batch) ==
    IF batch = <<>> THEN queue
    ELSE LET msg == [ Head(batch) EXCEPT !.retry_count = @ + 1 ]
         IN  requeue(IF msg.retry_count < max_retries THEN <<msg>> \o queue ELSE queue,
                     Tail(batch))

\* a caller enqueues a payload
Enqueue(payload_len, priority) ==
    /\ connection.enqueued < MaxEnqueued
    /\ connection' =
           [ connection EXCEPT
               !.message_queue = enqueue(@, [ message_id   |-> connection.enqueued + 1,
                                              priority     |-> priority,
                                              payload_len  |-> payload_len,
                                              retry_count  |-> 0 ]),
               !.enqueued = @ + 1 ]
    /\ UNCHANGED <<merkle, irrigation_timer, cycle_report, kriging_runs, bayesian_filter, ledgerVars, archiveVars, analysis, mirrorVars, vriVars, engineVars, syncVars, audit_log>>

\* flush up to its await: the batch is off the queue and handed to _transmit
Flush(max_batch_size) ==
    /\ ~connection.flushing
    /\ connection.message_queue # <<>>
    /\ LET r == build_batch(connection.message_queue, <<>>, 0, max_batch_size)
       IN  connection' = [ connection EXCEPT !.message_queue = r.message_queue,
                                             !.batch = r.batch,
                                             !.flushing = TRUE ]
    /\ UNCHANGED <<merkle, irrigation_timer, cycle_report, kriging_runs, bayesian_filter, ledgerVars, archiveVars, analysis, mirrorVars, vriVars, engineVars, syncVars, audit_log>>

\* _transmit returns and flush ends
Transmitted(success) ==
    /\ connection.flushing
    /\ connection' =
           [ connection EXCEPT
               !.message_queue = IF success THEN @ ELSE requeue(@, connection.batch),
               !.pending_acks = IF success
                                THEN @ \cup { connection.batch[i].message_id :
                                                i \in 1..Len(connection.batch) }
                                ELSE @,
               !.batch = <<>>,
               !.flushing = FALSE ]
    /\ UNCHANGED <<merkle, irrigation_timer, cycle_report, kriging_runs, bayesian_filter, ledgerVars, archiveVars, analysis, mirrorVars, vriVars, engineVars, syncVars, audit_log>>

(***************************************************************************)
(* TimeSeriesStore (persistence/timeseries.py)                             *)
(***************************************************************************)
\* where a call of store_measurement may raise: nowhere, at the INSERT, at the
\* UPDATE of chain_state, or at the COMMIT
Faults == {"none", "insert", "update", "commit"}

\* a table without the UNIQUE constraint on measurement_hash: no stored hash
\* stands in the way of an INSERT
StoredHashes_unconstrained(rows) == {}

\* the hashes the UNIQUE constraint on measurement_hash guards
StoredHashes(rows) == { rows[i].measurement_hash : i \in 1..Len(rows) }

get_last_hash(db) == db.chain_state.last_hash

\* store_measurement on a connection that commits every statement on its own:
\* a failure after the INSERT leaves the row without its chain_state update
store_measurement_autocommit(db, m, fault) ==
    LET duplicate == m.measurement_hash \in StoredHashes(db.measurements)
        tx_rows   == Append(db.measurements, m)
        tx_chain  == [ last_hash     |-> m.measurement_hash,
                       total_records |-> db.chain_state.total_records + 1 ]
    IN  IF duplicate \/ fault = "insert"
        THEN [ measurements |-> db.measurements, chain_state |-> db.chain_state,
               ok |-> FALSE ]
        ELSE IF fault = "update"
        THEN [ measurements |-> tx_rows, chain_state |-> db.chain_state, ok |-> FALSE ]
        ELSE [ measurements |-> tx_rows, chain_state |-> tx_chain, ok |-> fault = "none" ]

\* One sqlite connection: INSERT and UPDATE run in the same implicit transaction,
\* which only conn.commit() makes durable; an exception closes the connection
\* without commit.  UNIQUE(measurement_hash) raises IntegrityError at the INSERT.
store_measurement(db, m, fault) ==
    LET duplicate == m.measurement_hash \in StoredHashes(db.measurements)
        tx_rows   == Append(db.measurements, m)
        tx_chain  == [ last_hash     |-> m.measurement_hash,
                       total_records |-> db.chain_state.total_records + 1 ]
    IN  IF duplicate \/ fault # "none"
        THEN [ measurements |-> db.measurements, chain_state |-> db.chain_state,
               ok |-> FALSE ]
        ELSE [ measurements |-> tx_rows, chain_state |-> tx_chain, ok |-> TRUE ]

RECURSIVE store_batch(_, _, _, _, _)
\* store_batch: store_measurement on every record, counting the stored ones
store_batch(db, ms, faults, i, stored) ==
    IF i > Len(ms) THEN [ measurements |-> db.measurements,
                          chain_state |-> db.chain_state, stored |-> stored ]
    ELSE LET r == store_measurement(db, ms[i], faults[i])
         IN  store_batch(r, ms, faults, i + 1, IF r.ok THEN stored + 1 ELSE stored)

RECURSIVE CollectMeasurements(_, _, _, _)
\* the loop of _collect_and_process_measurements that chains the new readings
CollectMeasurements(i, readings, previous_hash, timestamp) ==
    IF i > Len(Probes) THEN <<>>
    ELSE LET m == create_measurement_with_integrity(
                      Probes[i].sensor_id, Probes[i].depth_inches, readings[i],
                      previous_hash, SoilTemp(Probes[i].depth_inches), NULL, timestamp)
         IN  <<m>> \o CollectMeasurements(i + 1, readings, m.measurement_hash, timestamp)

DB == [ measurements |-> measurements, chain_state |-> chain_state ]

\* a caller of the store offers one record, chained to a hash of its choice
StoreMeasurement(p, vwc, prev, fault) ==
    /\ Len(measurements) < MaxRecords
    /\ chain_state.total_records < MaxRecords
    /\ LET m == create_measurement_with_integrity(
                    Probes[p].sensor_id, Probes[p].depth_inches, vwc, prev,
                    SoilTemp(Probes[p].depth_inches), NULL, clock)
           r == store_measurement(DB, m, fault)
       IN  /\ measurements' = r.measurements
           /\ chain_state' = r.chain_state
           /\ last_stored' = IF r.ok THEN 1 ELSE 0
           /\ offered_duplicate' =
                  \E i \in 1..Len(measurements) :
                      measurements[i].measurement_hash = m.measurement_hash
    /\ UNCHANGED <<connection, merkle, irrigation_timer, cycle_report, kriging_runs, bayesian_filter, archiveVars, analysis, mirrorVars, verify_result, clock, vriVars, engineVars, syncVars, audit_log>>

\* FarmSenseEngine._collect_and_process_measurements up to store_batch
CollectAndProcessMeasurements(readings, faults) ==
    /\ Len(measurements) + Len(Probes) <= MaxRecords
    /\ LET ms == CollectMeasurements(1, readings, get_last_hash(DB), clock)
           r  == store_batch(DB, ms, faults, 1, 0)
       IN  /\ measurements' = r.measurements
           /\ chain_state' = r.chain_state
           /\ last_stored' = r.stored
           /\ offered_duplicate' = FALSE
    /\ UNCHANGED <<connection, merkle, irrigation_timer, cycle_report, kriging_runs, bayesian_filter, archiveVars, analysis, mirrorVars, verify_result, clock, vriVars, engineVars, syncVars, audit_log>>

\* ForensicHasher.verify_chain_integrity over the stored log
VerifyChainIntegrity ==
    /\ verify_result' = verify_chain_integrity(measurements, GENESIS, chain_state.last_hash)
    /\ UNCHANGED <<connection, merkle, irrigation_timer, cycle_report, kriging_runs, bayesian_filter, archiveVars, analysis, mirrorVars, measurements, chain_state, last_stored, offered_duplicate, clock,
                   vriVars, engineVars, syncVars, audit_log>>

\* two hours pass
AdvanceClock ==
    /\ clock + 2 <= MaxClock
    /\ clock' = clock + 2
    /\ UNCHANGED <<connection, merkle, irrigation_timer, cycle_report, kriging_runs, bayesian_filter, archiveVars, analysis, mirrorVars, measurements, chain_state, last_stored, offered_duplicate,
                   verify_result,
                   vriVars, engineVars, syncVars, audit_log>>

(***************************************************************************)
(* Archival (persistence/timeseries.py, archive_old_data)                  *)
(***************************************************************************)
retention_months == 24

\* timedelta(days=30 * retention_months), in hours
RetentionHours == 24 * 30 * retention_months

\* hour 0 of the ledger clock is 2024-01-01T00:00; days before each month of 2024
DaysBeforeMonth == <<0, 31, 60, 91, 121, 152, 182, 213, 244, 274, 305, 335>>

\* strftime('%Y%m') of an hour of 2024
YearMonth(hour) ==
    202400 + Cardinality({ k \in 1..12 : DaysBeforeMonth[k] <= hour \div 24 })

\* the rows SELECTed by timestamp < cutoff, as indices into the table
RecordsToArchive(rows, cutoff_date) ==
    { i \in 1..Len(rows) : rows[i].timestamp < cutoff_date }

RECURSIVE Keep(_, _, _)
\* the table without the rows of the given indices
Keep(rows, gone, i) ==
    IF i > Len(rows) THEN <<>>
    ELSE IF i \in gone THEN Keep(rows, gone, i + 1)
    ELSE <<rows[i]>> \o Keep(rows, gone, i + 1)

RECURSIVE Pick(_, _, _)
\* the rows of the given indices, in table order
Pick(rows, chosen, i) ==
    IF i > Len(rows) THEN <<>>
    ELSE IF i \in chosen THEN <<rows[i]>> \o Pick(rows, chosen, i + 1)
    ELSE Pick(rows, chosen, i + 1)

\* archive_old_data: gzip.open(archive_path, 'wb') starts the file anew, every
\* selected row's raw_data is written, the rows are deleted; chain_state is
\* not part of any statement
archive_old_data(db, files, now) ==
    LET cutoff_date        == now - RetentionHours
        records_to_archive == RecordsToArchive(db.measurements, cutoff_date)
        archive_path       == YearMonth(cutoff_date)
    IN  IF records_to_archive = {}
        THEN [ measurements |-> db.measurements, chain_state |-> db.chain_state,
               archive |-> files, archived |-> <<>> ]
        ELSE [ measurements |-> Keep(db.measurements, records_to_archive, 1),
               chain_state  |-> db.chain_state,
               archive      |-> [ f \in DOMAIN files \cup {archive_path} |->
                                      IF f = archive_path
                                      THEN Pick(db.measurements, records_to_archive, 1)
                                      ELSE files[f] ],
               archived     |-> Pick(db.measurements, records_to_archive, 1) ]

ArchiveOldData ==
    /\ LET r == archive_old_data(DB, archive, clock)
       IN  /\ measurements' = r.measurements
           /\ chain_state' = r.chain_state
           /\ archive' = r.archive
           /\ deleted' = deleted \o r.archived
    /\ UNCHANGED <<connection, merkle, irrigation_timer, cycle_report, kriging_runs, bayesian_filter, last_stored, offered_duplicate, verify_result, clock, analysis,
                   mirrorVars, vriVars, engineVars, syncVars, audit_log>>

\* a day, or the whole retention period, passes; the clock stays within
\* MaxDays days of hour 0 or of the end of the first retention period
DaysPass(days) ==
    /\ clock + 24 * days <= RetentionHours + 24 * MaxDays
    /\ (clock + 24 * days) % RetentionHours <= 24 * MaxDays
    /\ clock' = clock + 24 * days
    /\ UNCHANGED <<connection, merkle, irrigation_timer, cycle_report, kriging_runs, bayesian_filter, measurements, chain_state, last_stored, offered_duplicate,
                   verify_result, archiveVars, analysis, mirrorVars,
                   vriVars, engineVars, syncVars, audit_log>>

\* get_chain_integrity: the chain_state row, reported as valid
get_chain_integrity(db) ==
    [ valid         |-> TRUE,
      total_records |-> db.chain_state.total_records,
      last_hash     |-> db.chain_state.last_hash ]

(***************************************************************************)
(* Audit log (forensic/integrity.py, AuditLogger)                          *)
(***************************************************************************)
\* AuditLogger.log_event appends one line to the log
log_event(log, event_type, user_id) ==
    Append(log, [event_type |-> event_type, user_id |-> user_id])

\* AuditLogger.log_irrigation_override
log_irrigation_override(log, user_id) == log_event(log, "irrigation_override", user_id)

(***************************************************************************)
(* Irrigation decision engine (vri/controller.py)                          *)
(***************************************************************************)
Zones  == {"field_01_zone1", "field_02_zone1"}
Valves == {"valve_1", "valve_2"}
Users  == {"operator_1"}

\* class ValveState(Enum)
ValveState == {"CLOSED", "OPENING", "OPEN", "CLOSING", "FAULT", "MANUAL_OVERRIDE"}

deep_percolation_threshold == 4200000    \* 0.42
max_duration_minutes == 120

RECURSIVE SumVwc(_, _)
SumVwc(cells, i) ==
    IF i > Len(cells) THEN 0 ELSE cells[i].estimated_vwc + SumVwc(cells, i + 1)

RECURSIVE SumSq(_, _)
\* sum of squares of the VWC values, each taken in units of 1e-4
SumSq(cells, i) ==
    IF i > Len(cells) THEN 0
    ELSE (cells[i].estimated_vwc \div 1000) * (cells[i].estimated_vwc \div 1000)
         + SumSq(cells, i + 1)

Min(a, b) == IF a < b THEN a ELSE b
Max(a, b) == IF a > b THEN a ELSE b

\* ZoneIrrigationDecision; confidence in units of 1e-4
analyze_zone_for_irrigation(zone_id, field_id, grid_cells, field_capacity, wilting_point) ==
    IF grid_cells = <<>>
    THEN [ zone_id |-> zone_id, field_id |-> field_id,
           status |-> "NO_IRRIGATION_NEEDED",
           recommended_duration_minutes |-> 0, confidence |-> 0, cells_at_risk |-> 0 ]
    ELSE
    LET n          == Len(grid_cells)
        total      == SumVwc(grid_cells, 1)
        target_vwc == (field_capacity * 9) \div 10
        cells_below_target == Cardinality({ i \in 1..n : grid_cells[i].estimated_vwc < target_vwc })
        cells_above_fc     == Cardinality({ i \in 1..n : grid_cells[i].estimated_vwc > field_capacity })
        cells_at_deep_risk == Cardinality({ i \in 1..n :
                                  /\ grid_cells[i].depth_inches >= 42
                                  /\ grid_cells[i].estimated_vwc > deep_percolation_threshold })
        status ==
            IF cells_at_deep_risk > 0 THEN "DEEP_PERCOLATION_RISK"
            ELSE IF 2 * cells_above_fc > n THEN "SATURATION_DETECTED"
            ELSE IF total < target_vwc * n /\ 10 * cells_below_target > 3 * n
                 THEN "IRRIGATION_RECOMMENDED"
            ELSE "NO_IRRIGATION_NEEDED"
        \* int(deficit * 100 * 15), deficit = target_vwc - avg_vwc
        duration ==
            IF status = "IRRIGATION_RECOMMENDED"
            THEN Min(((target_vwc * n - total) * 3) \div (n * 20000), max_duration_minutes)
            ELSE 0
        total4     == SumVwc([i \in 1..n |->
                          [estimated_vwc |-> grid_cells[i].estimated_vwc \div 1000]], 1)
        variance8  == (n * SumSq(grid_cells, 1) - total4 * total4) \div (n * n)
        confidence == IF n > 1 THEN Max(5000, 10000 - variance8 \div 1000) ELSE 5000
    IN  [ zone_id |-> zone_id, field_id |-> field_id, status |-> status,
          recommended_duration_minutes |-> duration, confidence |-> confidence,
          cells_at_risk |-> cells_at_deep_risk ]

\* the cells a zone's grid may hold: estimated_vwc 0.20, 0.2245, 0.26, 0.50 at
\* 18 or 42 inches
ZoneCells ==
    { [ estimated_vwc |-> v, depth_inches |-> dp ] :
          v \in {2000000, 2245000, 2600000, 5000000}, dp \in {18, 42} }

\* the grids of one to MaxZoneCells cells
ZoneGrids == UNION { [1..n -> ZoneCells] : n \in 1..MaxZoneCells }

\* soil_properties['field_capacity']: 0.25, 0.30, 0.35
FieldCapacities == {2500000, 3000000, 3500000}

\* grids of ten cells at 18 in: the first k at the dry value, the next 9 - k at
\* the moist value, and a last cell of any kind
TenCellGrids ==
    { [ i \in 1..10 |->
          IF i = 10 THEN last
          ELSE [ estimated_vwc |-> IF i <= k THEN dry ELSE moist, depth_inches |-> 18 ] ] :
        k \in 0..9, dry \in {1000000, 2000000}, moist \in {2300000, 2600000},
        last \in ZoneCells }

\* a caller analyses one zone
AnalyzeZone(grid_cells, fc) ==
    /\ analysis' = [ grid_cells |-> grid_cells, field_capacity |-> fc,
                     decision |-> analyze_zone_for_irrigation("field_01_zone1",
                                      "field_01", grid_cells, fc, 800000) ]
    /\ UNCHANGED <<connection, merkle, irrigation_timer, cycle_report, kriging_runs, bayesian_filter, ledgerVars, archiveVars, mirrorVars, vriVars, engineVars, syncVars,
                   audit_log>>

\* ZoneIrrigationDecision.should_irrigate
should_irrigate(decision) ==
    /\ decision.status = "IRRIGATION_RECOMMENDED"
    /\ decision.confidence > 7000
    /\ decision.recommended_duration_minutes > 0

\* the decisions a caller may hand to the dispatcher
Decisions ==
    { [ status |-> "IRRIGATION_RECOMMENDED", confidence |-> 10000,
        recommended_duration_minutes |-> 37 ],
      [ status |-> "IRRIGATION_RECOMMENDED", confidence |-> 7000,
        recommended_duration_minutes |-> 37 ],
      [ status |-> "NO_IRRIGATION_NEEDED", confidence |-> 10000,
        recommended_duration_minutes |-> 0 ],
      [ status |-> "DEEP_PERCOLATION_RISK", confidence |-> 10000,
        recommended_duration_minutes |-> 0 ] }

(***************************************************************************)
(* Valve dispatcher (vri/controller.py, VRIController)                     *)
(***************************************************************************)
MaxPending == 2      \* valve commands that may be in flight at once

\* the empty dict, `del d[k]` and d[k] = v on the active_irrigation table
EmptyDict == [ z \in {} |-> 0 ]
Without(d, k) == [ z \in DOMAIN d \ {k} |-> d[z] ]
With(d, k, v) == [ z \in DOMAIN d \cup {k} |-> IF z = k THEN v ELSE d[z] ]

\* the zone_id -> valve_id dicts a caller may pass; a missing key is "unmapped"
PilotWiring == [ z \in Zones |-> IF z = "field_01_zone1" THEN "valve_1" ELSE "valve_2" ]
ValveMappings ==
    { PilotWiring,
      [ z \in Zones |-> IF z = "field_01_zone1" THEN "valve_2" ELSE "valve_1" ],
      [ z \in Zones |-> "unmapped" ] }

\* execute_irrigation_decision up to `await self._send_valve_command(command)`
ExecuteIrrigationDecision(zone, decision, valve_mapping) ==
    /\ LET valve_id == valve_mapping[zone]
           current_state == IF valve_id \in Valves THEN valve_states[valve_id] ELSE "CLOSED"
           command ==
               IF should_irrigate(decision)
               THEN IF current_state = "CLOSED" THEN "open" ELSE "none"
               ELSE IF current_state = "OPEN" /\ zone \in DOMAIN active_irrigation
                    THEN "close" ELSE "none"
       IN  IF valve_id \notin Valves \/ command = "none"
           THEN UNCHANGED pending
           ELSE /\ Cardinality(pending) < MaxPending
                /\ pending' = pending \cup
                       {[ zone_id |-> zone, valve_id |-> valve_id, command |-> command,
                          duration_minutes |-> decision.recommended_duration_minutes ]}
    /\ UNCHANGED <<connection, merkle, irrigation_timer, cycle_report, kriging_runs, bayesian_filter, archiveVars, analysis, mirrorVars, valve_states, active_irrigation, audit_log,
                   ledgerVars, engineVars, syncVars>>

\* _send_valve_command returns; the rest of execute_irrigation_decision runs
CompleteValveCommand(c, success) ==
    /\ c \in pending
    /\ pending' = pending \ {c}
    /\ IF ~success
       THEN UNCHANGED <<valve_states, active_irrigation, irrigation_timer>>
       ELSE IF c.command = "open"
       THEN /\ valve_states' = [valve_states EXCEPT ![c.valve_id] = "OPEN"]
            /\ active_irrigation' = With(active_irrigation, c.zone_id,
                   [ valve_id |-> c.valve_id, duration_minutes |-> c.duration_minutes ])
            /\ irrigation_timer' = [irrigation_timer EXCEPT !.minutes[c.zone_id] = 0]
       ELSE /\ valve_states' = [valve_states EXCEPT ![c.valve_id] = "CLOSED"]
            /\ active_irrigation' = Without(active_irrigation, c.zone_id)
            /\ UNCHANGED irrigation_timer
    /\ UNCHANGED <<connection, merkle, cycle_report, kriging_runs, bayesian_filter, archiveVars, analysis, mirrorVars, audit_log, ledgerVars, engineVars, syncVars>>

\* manual_override that sets the valve state before it writes the audit
\* entry: a failed write leaves the new state without an entry
ManualOverride_state_first(valve_id, command, user_id, log_fault) ==
    /\ Len(audit_log) < MaxAudit
    /\ valve_states' = [valve_states EXCEPT
           ![valve_id] = IF command = "open" THEN "MANUAL_OVERRIDE" ELSE "CLOSED"]
    /\ audit_log' = IF log_fault THEN audit_log
                    ELSE log_irrigation_override(audit_log, user_id)
    /\ UNCHANGED <<connection, merkle, irrigation_timer, cycle_report, kriging_runs, bayesian_filter, archiveVars, analysis, mirrorVars, active_irrigation, pending,
                   ledgerVars, engineVars, syncVars>>

\* manual_override: audit entry, then the new valve state, whatever the state
\* was; an exception of the log write (log_fault) leaves the call before the
\* state is set
ManualOverride(valve_id, command, user_id, log_fault) ==
    /\ Len(audit_log) < MaxAudit
    /\ IF log_fault
       THEN UNCHANGED <<audit_log, valve_states>>
       ELSE /\ audit_log' = log_irrigation_override(audit_log, user_id)
            /\ valve_states' = [valve_states EXCEPT
                   ![valve_id] = IF command = "open" THEN "MANUAL_OVERRIDE" ELSE "CLOSED"]
    /\ UNCHANGED <<connection, merkle, irrigation_timer, cycle_report, kriging_runs, bayesian_filter, archiveVars, analysis, mirrorVars, active_irrigation, pending,
                   ledgerVars, engineVars, syncVars>>

RECURSIVE StopZones(_, _, _)
\* the loop of emergency_stop_all over the active zones
StopZones(zones, st, user_id) ==
    IF zones = {} THEN st
    ELSE LET z == CHOOSE x \in zones : TRUE
         IN  StopZones(zones \ {z},
                 [ valve_states |-> [st.valve_states EXCEPT
                                       ![st.active_irrigation[z].valve_id] = "CLOSED"],
                   active_irrigation |-> st.active_irrigation,
                   audit_log |-> log_event(st.audit_log, "emergency_stop", user_id) ],
                 user_id)

emergency_stop_all(st, user_id) ==
    LET r == StopZones(DOMAIN st.active_irrigation, st, user_id)
    IN  [ valve_states |-> r.valve_states, active_irrigation |-> EmptyDict,
          audit_log |-> r.audit_log ]

EmergencyStopAll(user_id) ==
    /\ Len(audit_log) + Cardinality(DOMAIN active_irrigation) <= MaxAudit
    /\ LET r == emergency_stop_all([ valve_states |-> valve_states,
                                     active_irrigation |-> active_irrigation,
                                     audit_log |-> audit_log ], user_id)
       IN  /\ valve_states' = r.valve_states
           /\ active_irrigation' = r.active_irrigation
           /\ audit_log' = r.audit_log
    /\ UNCHANGED <<connection, merkle, irrigation_timer, cycle_report, kriging_runs, bayesian_filter, archiveVars, analysis, mirrorVars, pending, ledgerVars, engineVars, syncVars>>

\* the wall clock goes on: every entry of active_irrigation is `minutes`
\* older; the controller has no task, timer or callback that reads
\* 'started_at' or 'duration_minutes', so nothing else changes
ElapsedSteps == {30}
TimerCeiling == max_duration_minutes + 1    \* the count stops past any duration
TimePasses(minutes) ==
    /\ irrigation_timer' =
           [ minutes |-> [z \in Zones |->
                 IF z \in DOMAIN active_irrigation
                 THEN IF irrigation_timer.minutes[z] + minutes > TimerCeiling
                      THEN TimerCeiling
                      ELSE irrigation_timer.minutes[z] + minutes
                 ELSE irrigation_timer.minutes[z]],
             beat |-> ~irrigation_timer.beat ]
    /\ UNCHANGED <<connection, merkle, vriVars, cycle_report, kriging_runs, bayesian_filter, archiveVars, analysis, mirrorVars, audit_log, ledgerVars, engineVars, syncVars>>

(***************************************************************************)
(* Grid cycle (farmsense_engine.py, regression_kriging.py)                 *)
(***************************************************************************)
MaxGrids  == 2       \* grid cycles that may complete
GridCells == 2       \* cells of the rasterised grid (the code caps at 10000)
PrimaryDepth == 18   \* depth_inches of the grid the cycle generates
field_capacity == 2500000    \* soil_properties['field_capacity'] = 0.25
wilting_point  == 800000     \* soil_properties['wilting_point'] = 0.08
FallbackVwc    == 2000000    \* 'vwc': 0.20 of the default probe of the fallback

\* TimeSeriesStore.get_measurements(start_time = utcnow() - 1 h)
get_measurements(rows, now) ==
    SelectSeq(rows, LAMBDA m : m.timestamp >= now - 1)

FieldSensors(field_id) ==
    { SensorNetwork[i].sensor_id :
        i \in { k \in 1..Len(SensorNetwork) : SensorNetwork[k].field_id = field_id } }

\* _fallback_interpolation: inverse distance weighting; with no probe at the
\* depth it interpolates the single default probe, so every cell gets its value
fallback_interpolation(field_id, relevant, depth_inches) ==
    [ i \in 1..GridCells |->
        [ field_id |-> field_id, depth_inches |-> depth_inches,
          estimated_vwc |-> IF relevant = <<>> THEN FallbackVwc ELSE relevant[1].vwc,
          confidence |-> 5000, is_hard_anchor |-> FALSE ] ]

\* generate_virtual_grid: measurement['latitude'] and ['vwc'] are read from every
\* measurement at the requested depth; a dict without them raises KeyError
generate_virtual_grid(field_id, sensor_measurements, depth_inches) ==
    LET atDepth == SelectSeq(sensor_measurements,
                             LAMBDA m : m.depth_inches = depth_inches)
    IN  IF \E i \in 1..Len(atDepth) :
               "latitude" \notin DOMAIN atDepth[i] \/ "vwc" \notin DOMAIN atDepth[i]
        THEN [ error |-> TRUE, cells |-> <<>> ]
        ELSE [ error |-> FALSE,
               cells |-> fallback_interpolation(field_id, atDepth, depth_inches) ]

\* grid_store.store_grid and _make_vri_decision on the state st of the hub
store_grid_and_decide(st, field_id, grid_cells, now) ==
    LET zone_id   == IF field_id = "field_01" THEN "field_01_zone1" ELSE "field_02_zone1"
        decision  == analyze_zone_for_irrigation(zone_id, field_id, grid_cells,
                                                 field_capacity, wilting_point)
        deep      == decision.status = "DEEP_PERCOLATION_RISK"
        alerted   == IF deep
                     THEN log_event(st.audit_log, "deep_percolation_alert", "system")
                     ELSE st.audit_log
        stopped   == IF deep
                     THEN emergency_stop_all([ valve_states |-> st.valve_states,
                                               active_irrigation |-> st.active_irrigation,
                                               audit_log |-> alerted ], "system")
                     ELSE [ valve_states |-> st.valve_states,
                            active_irrigation |-> st.active_irrigation,
                            audit_log |-> alerted ]
    IN  [ valve_states |-> stopped.valve_states,
          active_irrigation |-> stopped.active_irrigation,
          audit_log |-> stopped.audit_log,
          grid_store |-> st.grid_store \cup
              {[ field_id |-> field_id, timestamp |-> now, cells |-> grid_cells ]},
          last_decision |-> [st.last_decision EXCEPT ![field_id] = decision.status],
          statistics |-> [st.statistics EXCEPT
              !.deep_percolation_alerts = @ + (IF deep THEN 1 ELSE 0),
              !.irrigation_decisions = @ + 1,
              !.grids_generated = @ + 1],
          skipped |-> st.skipped,
          grid_error |-> FALSE ]

RECURSIVE generate_all_grids(_, _, _, _)
\* the loop of _generate_all_grids without `if not field_measurements: continue`
generate_all_grids_without_skip(st, i, rows, now) ==
    IF i > Len(Fields) \/ st.grid_error THEN st
    ELSE LET field_id == Fields[i]
             recent_measurements == get_measurements(rows, now)
             field_measurements ==
                 SelectSeq(recent_measurements,
                           LAMBDA m : m.sensor_id \in FieldSensors(field_id))
             grid == generate_virtual_grid(field_id, field_measurements, PrimaryDepth)
         IN  IF grid.error
             THEN [st EXCEPT !.grid_error = TRUE]
             ELSE generate_all_grids(store_grid_and_decide(st, field_id, grid.cells, now),
                                     i + 1, rows, now)

\* the loop of _generate_all_grids over all_fields; an exception ends the cycle
generate_all_grids(st, i, rows, now) ==
    IF i > Len(Fields) \/ st.grid_error THEN st
    ELSE LET field_id == Fields[i]
             recent_measurements == get_measurements(rows, now)
             field_measurements ==
                 SelectSeq(recent_measurements,
                           LAMBDA m : m.sensor_id \in FieldSensors(field_id))
             grid == generate_virtual_grid(field_id, field_measurements, PrimaryDepth)
         IN  IF field_measurements = <<>>
             THEN generate_all_grids([st EXCEPT !.skipped = @ \cup {field_id}],
                                     i + 1, rows, now)
             ELSE IF grid.error
             THEN [st EXCEPT !.grid_error = TRUE]
             ELSE generate_all_grids(store_grid_and_decide(st, field_id, grid.cells, now),
                                     i + 1, rows, now)

GenerateAllGrids ==
    /\ statistics.grids_generated + Len(Fields) <= MaxGrids
    /\ LET r == generate_all_grids(
                    [ valve_states |-> valve_states,
                      active_irrigation |-> active_irrigation,
                      audit_log |-> audit_log, last_decision |-> last_decision,
                      statistics |-> statistics, grid_store |-> grid_store,
                      skipped |-> {}, grid_error |-> FALSE ],
                    1, measurements, clock)
       IN  /\ Len(r.audit_log) <= MaxAudit
           /\ valve_states' = r.valve_states
           /\ active_irrigation' = r.active_irrigation
           /\ audit_log' = r.audit_log
           /\ last_decision' = r.last_decision
           /\ statistics' = r.statistics
           /\ grid_store' = r.grid_store
           /\ cycle_report' = [ ran |-> TRUE, skipped |-> r.skipped,
                                error |-> r.grid_error ]
    /\ UNCHANGED <<connection, merkle, irrigation_timer, kriging_runs, bayesian_filter, archiveVars, analysis, mirrorVars, pending, ledgerVars, syncVars>>

(***************************************************************************)
(* Hub <-> mirror synchronisation (persistence/sync.py, CloudSyncProtocol) *)
(***************************************************************************)
heartbeat_interval == 5      \* seconds
failover_timeout   == 30     \* seconds

MirrorMessages == {"heartbeat_ack", "failover_command", "recovery_command", "closed"}

\* _set_state: the entries into FAILOVER_ACTIVE a state listener is told of
EntriesAfter(old_state, new_state, n) ==
    IF new_state = "FAILOVER_ACTIVE" /\ old_state # new_state
    THEN Min(n + 1, MaxPeriod) ELSE n

\* _sync_from_cloud does not suspend: no other task runs while the hub is RECOVERING
Running == rx_pc # "sync_from_cloud"

\* connect(): the websocket opens or the attempt raises
Connect(ok) ==
    /\ hb_pc = "idle" /\ rx_pc = "idle"
    /\ IF ok
       THEN /\ sync_state' = "CONNECTED"
            /\ elapsed' = 0
            /\ hb_pc' = "sending"
            /\ rx_pc' = "receive"
       ELSE /\ sync_state' = "DISCONNECTED"
            /\ UNCHANGED <<elapsed, hb_pc, rx_pc>>
    /\ connect_returned' = TRUE
    /\ UNCHANGED <<connection, merkle, irrigation_timer, cycle_report, kriging_runs, bayesian_filter, archiveVars, analysis, to_sync, mirror_sent, delivered, sleep_left, inbox, period_entries, period_callbacks,
                   is_cloud_controlled, audit_log, ledgerVars, vriVars, engineVars>>

\* time passes by one heartbeat interval; the heartbeat task wakes as soon as
\* its sleep is over, so no time passes while it is due
Tick ==
    /\ Running
    /\ hb_pc # "idle"
    /\ ~(hb_pc = "sleep" /\ sleep_left = 0)
    /\ elapsed < MaxSilence \/ sleep_left > 0
    /\ elapsed' = Min(elapsed + heartbeat_interval, MaxSilence)
    /\ sleep_left' = Max(0, sleep_left - heartbeat_interval)
    /\ UNCHANGED <<connection, merkle, irrigation_timer, cycle_report, kriging_runs, bayesian_filter, archiveVars, analysis, mirrorVars, sync_state, hb_pc, rx_pc, inbox, period_entries, period_callbacks,
                   is_cloud_controlled, audit_log, ledgerVars, vriVars, engineVars>>

\* _heartbeat_loop: the test of the while loop, made without suspension when
\* the previous iteration ends; a passed test starts the send of a heartbeat
LoopTest(state) == IF state = "CONNECTED" THEN "sending" ELSE "done"

\* _heartbeat_loop: the send of the heartbeat returns, or raises and ends the loop
HeartbeatSend(ok) ==
    /\ Running
    /\ hb_pc = "sending"
    /\ IF ok
       THEN /\ hb_pc' = "sleep"
            /\ sleep_left' = heartbeat_interval
            /\ UNCHANGED sync_state
       ELSE /\ hb_pc' = "done"
            /\ sync_state' = IF sync_state = "CONNECTED" THEN "DISCONNECTED" ELSE sync_state
            /\ UNCHANGED sleep_left
    /\ UNCHANGED <<connection, merkle, irrigation_timer, cycle_report, kriging_runs, bayesian_filter, archiveVars, analysis, mirrorVars, elapsed, rx_pc, inbox, period_entries, period_callbacks,
                   is_cloud_controlled, audit_log, ledgerVars, vriVars, engineVars>>

\* FarmSenseEngine._handle_cloud_failover, the registered failover callback
handle_cloud_failover(log) ==
    IF Len(log) < MaxAudit THEN log_event(log, "failover_to_cloud", "system") ELSE log

\* _heartbeat_loop after the sleep: the timeout check, then _trigger_failover
\* up to its send of failover_request or else the test of the loop
HeartbeatCheck ==
    /\ Running
    /\ hb_pc = "sleep" /\ sleep_left = 0
    /\ IF elapsed > failover_timeout
       THEN /\ sync_state' = "FAILOVER_ACTIVE"
            /\ period_entries' = EntriesAfter(sync_state, "FAILOVER_ACTIVE", period_entries)
            /\ period_callbacks' = Min(period_callbacks + 1, MaxPeriod)
            /\ is_cloud_controlled' = TRUE
            /\ audit_log' = handle_cloud_failover(audit_log)
            /\ hb_pc' = "failover_request"
       ELSE /\ hb_pc' = LoopTest(sync_state)
            /\ UNCHANGED <<sync_state, period_entries, period_callbacks,
                           is_cloud_controlled, audit_log>>
    /\ UNCHANGED <<connection, merkle, irrigation_timer, cycle_report, kriging_runs, bayesian_filter, archiveVars, analysis, mirrorVars, elapsed, sleep_left, rx_pc, inbox, ledgerVars, vriVars, engineVars>>

\* _trigger_failover: the send of failover_request returns (or raises, ignored),
\* and the loop is tested
FailoverRequestSent ==
    /\ Running
    /\ hb_pc = "failover_request"
    /\ hb_pc' = LoopTest(sync_state)
    /\ UNCHANGED <<connection, merkle, irrigation_timer, cycle_report, kriging_runs, bayesian_filter, archiveVars, analysis, mirrorVars, sync_state, elapsed, sleep_left, rx_pc, inbox, period_entries,
                   period_callbacks, is_cloud_controlled, audit_log,
                   ledgerVars, vriVars, engineVars>>

\* the mirror (or the transport) puts a message on the websocket; nothing
\* follows the close of the socket
MirrorSend(msg) ==
    /\ Running
    /\ hb_pc # "idle"
    /\ rx_pc # "closed"
    /\ \A i \in 1..Len(inbox) : inbox[i] # "closed"
    /\ Len(inbox) < MaxInbox
    /\ inbox' = Append(inbox, msg)
    /\ UNCHANGED <<connection, merkle, irrigation_timer, cycle_report, kriging_runs, bayesian_filter, archiveVars, analysis, mirrorVars, sync_state, elapsed, hb_pc, sleep_left, rx_pc, period_entries,
                   period_callbacks, is_cloud_controlled, audit_log,
                   ledgerVars, vriVars, engineVars>>

\* _receive_loop: one receive(), _handle_message and the next loop test
ReceiveMessage ==
    /\ rx_pc = "receive"
    /\ inbox # <<>>
    /\ inbox' = Tail(inbox)
    /\ LET msg == Head(inbox)
       IN  CASE msg = "heartbeat_ack" ->
                  /\ elapsed' = 0
                  /\ period_entries' = 0
                  /\ period_callbacks' = 0
                  /\ rx_pc' = IF sync_state = "CONNECTED" THEN "receive" ELSE "done"
                  /\ UNCHANGED sync_state
             [] msg = "failover_command" ->
                  /\ sync_state' = "FAILOVER_ACTIVE"
                  /\ rx_pc' = "done"
                  /\ UNCHANGED <<elapsed, period_entries, period_callbacks>>
             [] msg = "recovery_command" ->
                  /\ sync_state' = "RECOVERING"
                  /\ rx_pc' = "sync_from_cloud"
                  /\ UNCHANGED <<elapsed, period_entries, period_callbacks>>
             [] msg = "closed" ->
                  /\ sync_state' = IF sync_state = "CONNECTED"
                                   THEN "DISCONNECTED" ELSE sync_state
                  /\ rx_pc' = "closed"
                  /\ UNCHANGED <<elapsed, period_entries, period_callbacks>>
    /\ UNCHANGED <<connection, merkle, irrigation_timer, cycle_report, kriging_runs, bayesian_filter, archiveVars, analysis, mirrorVars, hb_pc, sleep_left, is_cloud_controlled, audit_log,
                   ledgerVars, vriVars, engineVars>>

\* _exit_failover_mode after _sync_from_cloud, and the next loop test
ExitFailoverMode ==
    /\ rx_pc = "sync_from_cloud"
    /\ sync_state' = "CONNECTED"
    /\ rx_pc' = "receive"
    /\ UNCHANGED <<connection, merkle, irrigation_timer, cycle_report, kriging_runs, bayesian_filter, archiveVars, analysis, mirrorVars, elapsed, hb_pc, sleep_left, inbox, period_entries, period_callbacks,
                   is_cloud_controlled, audit_log, ledgerVars, vriVars, engineVars>>


(***************************************************************************)
(* Mirroring (farmsense_engine.py, persistence/sync.py)                    *)
(***************************************************************************)
\* the loop over sync_measurement up to its next suspension: not CONNECTED,
\* every call returns False at once; CONNECTED, the head is handed to
\* send_json, which writes it (ok) or raises, and the loop is suspended
SyncMeasurements(queue, state, sent, ok) ==
    IF queue = <<>> \/ state # "CONNECTED"
    THEN [ to_sync |-> <<>>, mirror_sent |-> sent ]
    ELSE [ to_sync |-> Tail(queue),
           mirror_sent |-> IF ok
                           THEN Append(sent, [ type |-> "measurement",
                                               hash |-> Head(queue).measurement_hash ])
                           ELSE sent ]

MaxSent == 4         \* messages written to the websocket when a cycle ends

\* _collect_and_process_measurements: readings chained and stored, then the
\* mirror loop up to its first suspension (_run_bayesian_update never suspends)
MeasurementCycle(readings, faults, ok) ==
    /\ Running
    /\ connect_returned
    /\ to_sync = <<>>
    /\ Len(measurements) + Len(Probes) <= MaxRecords
    /\ Len(mirror_sent) + Len(Probes) <= MaxSent
    /\ LET ms == CollectMeasurements(1, readings, get_last_hash(DB), clock)
           r  == store_batch(DB, ms, faults, 1, 0)
           q  == SyncMeasurements(ms, sync_state, mirror_sent, ok)
       IN  /\ measurements' = r.measurements
           /\ chain_state' = r.chain_state
           /\ last_stored' = r.stored
           /\ offered_duplicate' = FALSE
           /\ to_sync' = q.to_sync
           /\ mirror_sent' = q.mirror_sent
    /\ UNCHANGED <<connection, merkle, irrigation_timer, cycle_report, kriging_runs, bayesian_filter, verify_result, clock, archiveVars, analysis, connect_returned,
                   delivered, vriVars, engineVars, syncVars, audit_log>>

\* the measurement cycle resumes after a send_json
SyncMeasurement(ok) ==
    /\ Running
    /\ to_sync # <<>>
    /\ LET q == SyncMeasurements(to_sync, sync_state, mirror_sent, ok)
       IN  /\ to_sync' = q.to_sync
           /\ mirror_sent' = q.mirror_sent
    /\ UNCHANGED <<connection, merkle, irrigation_timer, cycle_report, kriging_runs, bayesian_filter, ledgerVars, archiveVars, analysis, connect_returned, delivered,
                   vriVars, engineVars, syncVars, audit_log>>

\* the state_sync messages among the first n messages
StateSyncs(sent, n) == { k \in 1..n : sent[k].type = "state_sync" }

\* one round of _cloud_sync_loop: SystemState with get_last_hash(), sync_state()
CloudSync(ok) ==
    /\ Running
    /\ connect_returned
    /\ Cardinality(StateSyncs(mirror_sent, Len(mirror_sent))) < MaxStateSyncs
    /\ IF sync_state # "CONNECTED"
       THEN UNCHANGED <<mirror_sent, sync_state>>
       ELSE IF ok
       THEN /\ mirror_sent' = Append(mirror_sent, [ type |-> "state_sync",
                                                    hash |-> get_last_hash(DB) ])
            /\ UNCHANGED sync_state
       ELSE /\ sync_state' = "DISCONNECTED"
            /\ UNCHANGED mirror_sent
    /\ UNCHANGED <<connection, merkle, irrigation_timer, cycle_report, kriging_runs, bayesian_filter, ledgerVars, archiveVars, analysis, connect_returned, to_sync,
                   delivered, vriVars, engineVars, audit_log, elapsed, hb_pc,
                   sleep_left, rx_pc, inbox, period_entries, period_callbacks,
                   is_cloud_controlled>>

\* the mirror takes the next message off the websocket
MirrorReceive ==
    /\ delivered < Len(mirror_sent)
    /\ delivered' = delivered + 1
    /\ UNCHANGED <<connection, merkle, irrigation_timer, cycle_report, kriging_runs, bayesian_filter, ledgerVars, archiveVars, analysis, connect_returned, to_sync,
                   mirror_sent, vriVars, engineVars, syncVars, audit_log>>

RECURSIVE ReceivedChain(_, _, _)
\* CloudMirrorController.measurement_chain: receive_measurement appends the hash
\* of every measurement message received
ReceivedChain(sent, n, k) ==
    IF k > n THEN <<>>
    ELSE IF sent[k].type = "measurement"
    THEN <<sent[k].hash>> \o ReceivedChain(sent, n, k + 1)
    ELSE ReceivedChain(sent, n, k + 1)

measurement_chain == ReceivedChain(mirror_sent, delivered, 1)

(***************************************************************************)
(* Recursive Bayesian filter (engine/bayesian/filter.py)                   *)
(*                                                                         *)
(* Texture ratios are the exact fractions sand_ratio/den, silt_ratio/den,  *)
(* clay_ratio/den; field_capacity and wilting_point of a zone are in units *)
(* of 1/(10000 * den).  Moisture values of the filter are in units of      *)
(* 1/4000000 (VwcUnit), the unit of the coefficients while den = 400.      *)
(* ksat = 10^x * 100 is kept as its exponent x, the fraction <<num, den>>; *)
(* coefficient_variance = 0.1 * 0.95^k is kept as k.                       *)
(***************************************************************************)
FilterZones  == {"field_01"}
FilterDepths == {18, 42}

\* learning_rate * 0.05 = 0.0025 = 1/TextureStep
TextureStep == 400
VwcUnit     == 4000000

\* update_threshold = 0.03, and the 0.02 of update_from_residual
update_threshold == 120000
ResidualFloor    == 80000

RECURSIVE GCD(_, _)
GCD(a, b) == IF b = 0 THEN a ELSE GCD(b, a % b)

\* a fraction in lowest terms, the denominator positive
Fraction(num, den) ==
    LET g == GCD(IF num < 0 THEN -num ELSE num, den)
    IN  <<num \div g, den \div g>>

\* SoilCoefficients(zone_id): ksat 10.0, field_capacity 0.25, wilting_point
\* 0.08, sand 0.33, silt 0.33, clay 0.34, coefficient_variance 0.1
SoilCoefficients(zone_id) ==
    [ zone_id              |-> zone_id,
      ksat                 |-> <<-1, 1>>,
      field_capacity       |-> 2500 * 400,
      wilting_point        |-> 800 * 400,
      sand_ratio           |-> 132,
      silt_ratio           |-> 132,
      clay_ratio           |-> 136,
      den                  |-> 400,
      coefficient_variance |-> 0,
      update_count         |-> 0 ]

\* _recalculate_hydraulics: ksat = 10^(-0.6 + 1.3 sand - 0.6 clay) * 100,
\* field_capacity = 0.2576 - 0.002 sand + 0.0036 clay,
\* wilting_point = 0.026 + 0.005 clay
recalculate_hydraulics(c) ==
    [ c EXCEPT
        !.ksat = Fraction(-6 * c.den + 13 * c.sand_ratio - 6 * c.clay_ratio, 10 * c.den),
        !.field_capacity = 2576 * c.den - 20 * c.sand_ratio + 36 * c.clay_ratio,
        !.wilting_point  = 260 * c.den + 50 * c.clay_ratio ]

\* the texture after the clamped step of update_from_residual, in units of
\* 1/(TextureStep * den): clay up to 0.6 and sand down to 0.1 for a positive
\* residual, sand up to 0.8 and clay down to 0.1 otherwise
SteppedTexture(c, residual) ==
    LET one == c.den
        s   == TextureStep * c.sand_ratio
        t   == TextureStep * c.silt_ratio
        cl  == TextureStep * c.clay_ratio
        d   == TextureStep * c.den
    IN  IF residual > 0
        THEN [ sand |-> Max((d \div 10), s - one), silt |-> t,
               clay |-> Min((6 * d) \div 10, cl + one), den |-> d ]
        ELSE [ sand |-> Min((8 * d) \div 10, s + one), silt |-> t,
               clay |-> Max(d \div 10, cl - one), den |-> d ]

\* ratios sand/den, silt/den, clay/den in lowest common terms
Texture(c, sand, silt, clay, den) ==
    LET g == GCD(GCD(sand, silt), GCD(clay, den))
    IN  [ c EXCEPT !.sand_ratio = sand \div g, !.silt_ratio = silt \div g,
                   !.clay_ratio = clay \div g, !.den = den \div g ]

\* update_from_residual without the re-normalisation: the clamped ratios are
\* kept as they are
update_from_residual_unnormalized(c, residual) ==
    IF (IF residual < 0 THEN -residual ELSE residual) < ResidualFloor THEN c
    ELSE LET x == SteppedTexture(c, residual)
             n == recalculate_hydraulics(Texture(c, x.sand, x.silt, x.clay, x.den))
         IN  [ n EXCEPT !.update_count = c.update_count + 1,
                        !.coefficient_variance = c.coefficient_variance + 1 ]

\* SoilCoefficients.update_from_residual: step, re-normalise by the total,
\* recalculate, count
update_from_residual(c, residual) ==
    IF (IF residual < 0 THEN -residual ELSE residual) < ResidualFloor THEN c
    ELSE LET x     == SteppedTexture(c, residual)
             total == x.sand + x.silt + x.clay
             n == recalculate_hydraulics(Texture(c, x.sand, x.silt, x.clay, total))
         IN  [ n EXCEPT !.update_count = c.update_count + 1,
                        !.coefficient_variance = c.coefficient_variance + 1 ]

\* RecursiveBayesianFilter(): no zone, no prediction
RecursiveBayesianFilter ==
    [ coefficients      |-> [ z \in {} |-> 0 ],
      last_predictions  |-> [ k \in {} |-> 0 ],
      total_predictions |-> 0,
      total_updates     |-> 0 ]

\* get_or_create_coefficients: the filter with the zone's coefficients in it
get_or_create_coefficients(f, zone_id) ==
    IF zone_id \in DOMAIN f.coefficients THEN f
    ELSE [ f EXCEPT !.coefficients =
             [ z \in DOMAIN f.coefficients \cup {zone_id} |->
                 IF z = zone_id THEN SoilCoefficients(zone_id) ELSE f.coefficients[z] ] ]

\* a value of 1/(10000 * den) units in VwcUnit
InVwcUnits(x, den) == (x * 400) \div den

\* et_fraction in tenths
EtFraction(depth_inches) ==
    IF depth_inches <= 18 THEN 6 ELSE IF depth_inches <= 36 THEN 3 ELSE 1

\* (et_rate_mm_day / 24 * hours_since_last) / 1000 * et_fraction
EtLoss(depth_inches, et_rate_mm_day, hours_since_last) ==
    (et_rate_mm_day * hours_since_last * EtFraction(depth_inches) * 50) \div 3

\* min(excess, ksat / 100 * (hours / 24) * 0.1).  ksat / 100 = 10^x with
\* x >= -1: the drainage is the excess whenever the excess is within the cap
\* of x = -1, and that cap when x = -1; beyond it the power is not computed
\* and the value is the cap of x = -1, its lower bound
Drainage(c, excess, hours_since_last) ==
    LET least == (40000 * hours_since_last) \div 24
    IN  IF excess <= least THEN excess ELSE least

\* the inputs for which Drainage is the exact value
DrainageExact(c, baseline_vwc, hours_since_last) ==
    \/ baseline_vwc - InVwcUnits(c.field_capacity, c.den)
           <= (40000 * hours_since_last) \div 24
    \/ c.ksat = <<-1, 1>>

\* RecursiveBayesianFilter.predict: the filter after the call and the
\* MoistureState returned; prediction_variance = coefficient_variance *
\* (1 + hours / 24) is kept as its factors
predict(f, zone_id, depth_inches, et_rate_mm_day, hours_since_last) ==
    LET g      == get_or_create_coefficients(f, zone_id)
        coeffs == g.coefficients[zone_id]
        key    == <<zone_id, depth_inches>>
        fc     == InVwcUnits(coeffs.field_capacity, coeffs.den)
        wp     == InVwcUnits(coeffs.wilting_point, coeffs.den)
        baseline_vwc == IF key \in DOMAIN g.last_predictions
                        THEN g.last_predictions[key].predicted_vwc ELSE fc
        et_loss  == EtLoss(depth_inches, et_rate_mm_day, hours_since_last)
        drainage == IF baseline_vwc > fc
                    THEN Drainage(coeffs, baseline_vwc - fc, hours_since_last) ELSE 0
        state == [ depth_inches  |-> depth_inches,
                   predicted_vwc |-> Max(wp, Min(VwcUnit \div 2,
                                                 baseline_vwc - et_loss - drainage)),
                   prediction_variance |->
                       [ decays |-> coeffs.coefficient_variance,
                         hours  |-> hours_since_last, halvings |-> 0 ] ]
    IN  [ filter |-> [ g EXCEPT
                         !.last_predictions =
                             [ k \in DOMAIN g.last_predictions \cup {key} |->
                                 IF k = key THEN state ELSE g.last_predictions[k] ],
                         !.total_predictions = g.total_predictions + 1 ],
          state  |-> state ]

\* an update whose prediction cache is keyed by the depth alone: the
\* observation replaces the cached prediction of every zone at that depth
update_keyed_by_depth(f, zone_id, depth_inches, observed_vwc, predicted_vwc) ==
    LET residual == observed_vwc - predicted_vwc
        abs_error == IF residual < 0 THEN -residual ELSE residual
        g == IF abs_error > update_threshold
             THEN LET h == get_or_create_coefficients(f, zone_id)
                  IN  [ h EXCEPT !.coefficients[zone_id] =
                                     update_from_residual(h.coefficients[zone_id], residual),
                                 !.total_updates = h.total_updates + 1 ]
             ELSE f
    IN  [ g EXCEPT !.last_predictions =
            [ k \in DOMAIN g.last_predictions |->
                IF k[2] = depth_inches
                THEN [ g.last_predictions[k] EXCEPT
                         !.predicted_vwc = observed_vwc,
                         !.prediction_variance.halvings = @ + 1 ]
                ELSE g.last_predictions[k] ] ]

\* RecursiveBayesianFilter.update
update(f, zone_id, depth_inches, observed_vwc, predicted_vwc) ==
    LET residual == observed_vwc - predicted_vwc
        abs_error == IF residual < 0 THEN -residual ELSE residual
        g == IF abs_error > update_threshold
             THEN LET h == get_or_create_coefficients(f, zone_id)
                  IN  [ h EXCEPT !.coefficients[zone_id] =
                                     update_from_residual(h.coefficients[zone_id], residual),
                                 !.total_updates = h.total_updates + 1 ]
             ELSE f
        key == <<zone_id, depth_inches>>
    IN  IF key \in DOMAIN g.last_predictions
        THEN [ g EXCEPT !.last_predictions[key].predicted_vwc = observed_vwc,
                        !.last_predictions[key].prediction_variance.halvings = @ + 1 ]
        ELSE g

\* get_state_dict: the coefficients of every zone under the keys of the
\* snapshot, and the statistics
get_state_dict(f) ==
    [ coefficients |->
          [ z \in DOMAIN f.coefficients |->
              [ ksat           |-> f.coefficients[z].ksat,
                field_capacity |-> <<f.coefficients[z].field_capacity, f.coefficients[z].den>>,
                wilting_point  |-> <<f.coefficients[z].wilting_point, f.coefficients[z].den>>,
                sand           |-> <<f.coefficients[z].sand_ratio, f.coefficients[z].den>>,
                silt           |-> <<f.coefficients[z].silt_ratio, f.coefficients[z].den>>,
                clay           |-> <<f.coefficients[z].clay_ratio, f.coefficients[z].den>>,
                variance       |-> f.coefficients[z].coefficient_variance,
                updates        |-> f.coefficients[z].update_count ] ],
      stats |-> [ total_predictions |-> f.total_predictions,
                  total_updates     |-> f.total_updates ] ]

\* restore_state: SoilCoefficients of every zone of the snapshot; nothing else
\* of the filter is touched
restore_state(f, state_dict) ==
    [ f EXCEPT !.coefficients =
        [ z \in DOMAIN f.coefficients \cup DOMAIN state_dict.coefficients |->
            IF z \in DOMAIN state_dict.coefficients
            THEN LET d == state_dict.coefficients[z]
                 IN  [ zone_id              |-> z,
                       ksat                 |-> d.ksat,
                       field_capacity       |-> d.field_capacity[1],
                       wilting_point        |-> d.wilting_point[1],
                       sand_ratio           |-> d.sand[1],
                       silt_ratio           |-> d.silt[1],
                       clay_ratio           |-> d.clay[1],
                       den                  |-> d.sand[2],
                       coefficient_variance |-> d.variance,
                       update_count         |-> d.updates ]
            ELSE f.coefficients[z] ] ]

\* moisture values a caller may report as observed or predicted: 0.20, 0.26
ObservedVwc == {800000, 1040000}

\* evapotranspiration rate (mm/day) and hours since the last cycle
EtRates    == {5}
HoursSince == {24}

\* a caller asks for a prediction
Predict(zone_id, depth_inches, et_rate_mm_day, hours_since_last) ==
    /\ bayesian_filter.total_predictions < MaxPredictions
    /\ LET g == get_or_create_coefficients(bayesian_filter, zone_id)
           key == <<zone_id, depth_inches>>
       IN  DrainageExact(g.coefficients[zone_id],
                         IF key \in DOMAIN g.last_predictions
                         THEN g.last_predictions[key].predicted_vwc ELSE 0,
                         hours_since_last)
    /\ bayesian_filter' =
           predict(bayesian_filter, zone_id, depth_inches, et_rate_mm_day,
                   hours_since_last).filter
    /\ UNCHANGED <<connection, merkle, irrigation_timer, cycle_report, kriging_runs, ledgerVars, archiveVars, analysis, mirrorVars, vriVars, engineVars,
                   syncVars, audit_log>>

\* a caller reports an observation against a prediction
Update(zone_id, depth_inches, observed_vwc, predicted_vwc) ==
    /\ bayesian_filter.total_updates < MaxFilterUpdates
    /\ <<zone_id, depth_inches>> \in DOMAIN bayesian_filter.last_predictions
           => bayesian_filter.last_predictions[<<zone_id, depth_inches>>]
                  .prediction_variance.halvings < MaxHalvings
    /\ bayesian_filter' =
           update(bayesian_filter, zone_id, depth_inches, observed_vwc, predicted_vwc)
    /\ UNCHANGED <<connection, merkle, irrigation_timer, cycle_report, kriging_runs, ledgerVars, archiveVars, analysis, mirrorVars, vriVars, engineVars,
                   syncVars, audit_log>>

\* residuals handed to update_from_residual: -0.05, -0.01, 0.01, 0.05
Residuals == {-200000, -40000, 40000, 200000}

\* SoilCoefficients.update_from_residual on the coefficients of a zone
UpdateFromResidual(zone_id, residual) ==
    /\ LET g == get_or_create_coefficients(bayesian_filter, zone_id)
           c == g.coefficients[zone_id]
       IN  /\ c.update_count < MaxSoilUpdates
           /\ c.den <= MaxDenominator
           /\ bayesian_filter' =
                  [ g EXCEPT !.coefficients[zone_id] = update_from_residual(c, residual) ]
    /\ UNCHANGED <<connection, merkle, irrigation_timer, cycle_report, kriging_runs, ledgerVars, archiveVars, analysis, mirrorVars, vriVars, engineVars,
                   syncVars, audit_log>>

(***************************************************************************)
(* Regression kriging (engine/kriging/regression_kriging.py)               *)
(*                                                                         *)
(* The field is a strip along one meridian (min_lon = max_lon, so          *)
(* n_lon = 1); latitudes are metres north of min_lat.  satellite_trend is  *)
(* None, as the engine passes it.  The kriged estimate and variance of a   *)
(* cell that is no anchor are kept as the terms they are computed from.    *)
(***************************************************************************)
FieldLengthMeters == 20
grid_resolution   == 1
tolerance_meters  == 5

\* n_lat = int(lat_meters / grid_resolution) + 1
n_lat == FieldLengthMeters \div grid_resolution + 1

\* linspace(min_lat, max_lat, n_lat)
lat_grid == [ i \in 1..n_lat |-> ((i - 1) * FieldLengthMeters) \div (n_lat - 1) ]

\* measurement.get(key, default)
Get(m, key, default) == IF key \in DOMAIN m THEN m[key] ELSE default

\* _distance_matrix of one point against the sensors, in metres
distance_matrix(lat, sensor_lats) ==
    [ k \in 1..Len(sensor_lats) |->
        IF lat < sensor_lats[k] THEN sensor_lats[k] - lat ELSE lat - sensor_lats[k] ]

\* argmin: the first index of the least distance
argmin(dist) ==
    CHOOSE k \in 1..Len(dist) :
        /\ \A j \in 1..Len(dist) : dist[k] <= dist[j]
        /\ \A j \in 1..(k - 1) : dist[j] > dist[k]

\* list.index: the first index of the value
index(list, x) ==
    CHOOSE k \in 1..Len(list) :
        /\ list[k] = x
        /\ \A j \in 1..(k - 1) : list[j] # x

\* _check_sensor_location
check_sensor_location(lat, sensor_lats, sensor_ids) ==
    LET dist == distance_matrix(lat, sensor_lats)
        min_dist_idx == argmin(dist)
    IN  IF dist[min_dist_idx] < tolerance_meters
        THEN [ is_anchor |-> TRUE, anchor_sensor |-> sensor_ids[min_dist_idx] ]
        ELSE [ is_anchor |-> FALSE, anchor_sensor |-> NULL ]

\* round(latitude, 8): metres north of min_lat as 1e-8 degrees (111000 m each)
Round8Lat(meters) == (meters * 100000000 + 55500) \div 111000

\* KrigingCell.compute_hash: SHA-256 of the canonical JSON of the cell's
\* fields and of 'timestamp': datetime.utcnow().isoformat().  round(vwc, 6)
\* and round(variance, 8) are computed for the numbers of an anchor cell and
\* kept as terms for the kriged terms of the other cells
compute_hash(cell, utcnow) ==
    << cell.cell_id, cell.field_id, Round8Lat(cell.latitude), cell.longitude,
       cell.depth_inches,
       IF cell.is_hard_anchor THEN Round6(cell.estimated_vwc)
       ELSE [ rounded |-> cell.estimated_vwc, digits |-> 6 ],
       IF cell.is_hard_anchor THEN cell.estimation_variance
       ELSE [ rounded |-> cell.estimation_variance, digits |-> 8 ],
       utcnow >>

\* KrigingCell(...) followed by cell.compute_hash()
KrigingCell(field_id, depth_inches, cell_count, lat, vwc, variance, confidence, anchor, utcnow) ==
    LET cell == [ cell_id |-> <<field_id, depth_inches, cell_count>>,
                  field_id |-> field_id, latitude |-> lat, longitude |-> 0,
                  depth_inches |-> depth_inches, estimated_vwc |-> vwc,
                  estimation_variance |-> variance, confidence |-> confidence,
                  is_hard_anchor |-> anchor.is_anchor,
                  anchor_sensor_id |-> anchor.anchor_sensor ]
    IN  [ c \in DOMAIN cell \cup {"cell_hash"} |->
            IF c = "cell_hash" THEN compute_hash(cell, utcnow) ELSE cell[c] ]

\* _fallback_interpolation: inverse distance weighting of the readings at the
\* depth, or of the default probe (0.20 at the centre) when there is none
kriging_fallback_interpolation(field_id, sensor_measurements, depth_inches, utcnow) ==
    LET found == SelectSeq(sensor_measurements,
                           LAMBDA m : Get(m, "depth_inches", NULL) = depth_inches)
        relevant == IF found = <<>>
                    THEN << [ latitude |-> FieldLengthMeters \div 2, vwc |-> FallbackVwc ] >>
                    ELSE found
        lats == [ k \in 1..Len(relevant) |-> relevant[k].latitude ]
        vals == [ k \in 1..Len(relevant) |-> relevant[k].vwc ]
    IN  [ i \in 1..n_lat |->
            KrigingCell(field_id, depth_inches, i - 1, lat_grid[i],
                        [ idw |-> distance_matrix(lat_grid[i], lats), values |-> vals ],
                        [ mean |-> distance_matrix(lat_grid[i], lats) ],
                        5000, [ is_anchor |-> FALSE, anchor_sensor |-> NULL ], utcnow) ]

\* generate_virtual_grid with satellite_trend = None, run at utcnow
virtual_grid(field_id, sensor_measurements, depth_inches, utcnow) ==
    LET at == SelectSeq(sensor_measurements,
                        LAMBDA m : Get(m, "depth_inches", NULL) = depth_inches)
        sensor_lats   == [ k \in 1..Len(at) |-> at[k].latitude ]
        sensor_values == [ k \in 1..Len(at) |-> at[k].vwc ]
        sensor_ids    == [ k \in 1..Len(at) |-> Get(at[k], "sensor_id", "unknown") ]
    IN  IF Len(at) < 3
        THEN kriging_fallback_interpolation(field_id, sensor_measurements,
                                            depth_inches, utcnow)
        ELSE [ i \in 1..n_lat |->
                 LET lat    == lat_grid[i]
                     anchor == check_sensor_location(lat, sensor_lats, sensor_ids)
                     dist   == distance_matrix(lat, sensor_lats)
                 IN  IF anchor.is_anchor
                     THEN KrigingCell(field_id, depth_inches, i - 1, lat,
                                      sensor_values[index(sensor_ids, anchor.anchor_sensor)],
                                      0, 10000, anchor, utcnow)
                     ELSE KrigingCell(field_id, depth_inches, i - 1, lat,
                                      [ kriged |-> dist, values |-> sensor_values ],
                                      [ kriged |-> dist ],
                                      [ kriged |-> dist ], anchor, utcnow) ]

\* readings a caller may hand to generate_virtual_grid: probes at 0 m, 3 m and
\* 20 m, moisture 0.20 or 0.30, with a sensor id or without
ProbeReadings ==
    [ latitude : {0, 3, 20}, vwc : {2000000, 3000000},
      depth_inches : {PrimaryDepth}, sensor_id : {"probe_a"} ]
    \cup [ latitude : {0, 3, 20}, vwc : {2000000, 3000000},
           depth_inches : {PrimaryDepth} ]

ProbeLists ==
    { <<a, b>> : a \in ProbeReadings, b \in ProbeReadings }
    \cup { <<a, b, c>> : a \in ProbeReadings, b \in ProbeReadings, c \in ProbeReadings }

\* a caller generates the grid of a field from a list of readings
GenerateVirtualGrid(sensor_measurements) ==
    /\ kriging_runs.grids = <<>>
    /\ kriging_runs' =
           [ sensor_measurements |-> sensor_measurements,
             grids |-> << virtual_grid("field_01", sensor_measurements,
                                       PrimaryDepth, clock) >> ]
    /\ UNCHANGED <<connection, merkle, irrigation_timer, cycle_report, ledgerVars, bayesian_filter, archiveVars, analysis, mirrorVars, vriVars,
                   engineVars, syncVars, audit_log>>

\* the caller generates the grid again from the same readings
GenerateAgain ==
    /\ kriging_runs.grids # <<>>
    /\ Len(kriging_runs.grids) < MaxRuns
    /\ kriging_runs' =
           [ kriging_runs EXCEPT !.grids =
               Append(@, virtual_grid("field_01", kriging_runs.sensor_measurements,
                                      PrimaryDepth, clock)) ]
    /\ UNCHANGED <<connection, merkle, irrigation_timer, cycle_report, ledgerVars, bayesian_filter, archiveVars, analysis, mirrorVars, vriVars,
                   engineVars, syncVars, audit_log>>

(***************************************************************************)
(* VirtualGridStore (persistence/timeseries.py)                            *)
(*                                                                         *)
(* grid_store holds the snapshots committed by store_grid; the rows of the *)
(* grid_cells table are the cells of the snapshots, each with the          *)
(* timestamp of its snapshot.                                              *)
(***************************************************************************)
\* cells a caller may put into a snapshot: cell ids 0 and 1 of the field's
\* 18 in grid, moisture 0.20 or 0.30
SnapshotCells(field_id) ==
    [ cell_id : { <<field_id, PrimaryDepth, k>> : k \in 0..1 },
      field_id : {field_id}, estimated_vwc : {2000000, 3000000} ]

\* snapshots of one or two cells with distinct cell ids
Snapshots(field_id) ==
    { <<a>> : a \in SnapshotCells(field_id) }
    \cup { <<a, b>> : a \in { c \in SnapshotCells(field_id) : c.cell_id[3] = 0 },
                      b \in { c \in SnapshotCells(field_id) : c.cell_id[3] = 1 } }

\* the rows of grid_cells: one per cell of a snapshot
GridRows(store) ==
    UNION { { [ cell |-> s.cells[k], timestamp |-> s.timestamp, snapshot |-> s ] :
                k \in 1..Len(s.cells) } : s \in store }

\* SELECT raw_data FROM grid_cells WHERE field_id = ? AND timestamp <= ?
SelectedRows(store, field_id, timestamp) ==
    { r \in GridRows(store) : r.cell.field_id = field_id /\ r.timestamp <= timestamp }

\* get_grid_at_time: the rows in ORDER BY timestamp DESC, the first row of
\* every cell_id kept.  The order of rows with equal timestamps is not
\* specified by the query, so the value is the set of the possible results,
\* each the set of the rows kept.  (The cut at 10000 cells is beyond the
\* grids of the model.)
get_grid_at_time(store, field_id, timestamp) ==
    LET rows == SelectedRows(store, field_id, timestamp)
        ids  == { r.cell.cell_id : r \in rows }
        first(id) == { r \in rows :
                         /\ r.cell.cell_id = id
                         /\ \A q \in rows : q.cell.cell_id = id
                                                => q.timestamp <= r.timestamp }
    IN  { { pick[id] : id \in ids } :
            pick \in { f \in [ ids -> rows ] : \A id \in ids : f[id] \in first(id) } }

\* VirtualGridStore.store_grid of a snapshot stamped with the current time;
\* the calls for one field are far enough apart to get distinct timestamps
StoreGrid(field_id, cells) ==
    /\ Cardinality(grid_store) < MaxSnapshots
    /\ \A s \in grid_store : s.field_id = field_id => s.timestamp < clock
    /\ grid_store' = grid_store \cup
           {[ field_id |-> field_id, timestamp |-> clock, cells |-> cells ]}
    /\ UNCHANGED <<connection, merkle, irrigation_timer, cycle_report, ledgerVars, kriging_runs, bayesian_filter, archiveVars, analysis,
                   mirrorVars, vriVars, last_decision, statistics, syncVars, audit_log>>

(***************************************************************************)
(* Initial state and specifications                                        *)
(***************************************************************************)
\* the hub after construction, over valves in the given states
InitFrom(states) ==
    /\ measurements = <<>>
    /\ chain_state = [ last_hash |-> GENESIS, total_records |-> 0 ]
    /\ last_stored = -1
    /\ offered_duplicate = FALSE
    /\ archive = [ f \in {} |-> <<>> ]
    /\ deleted = <<>>
    /\ connect_returned = FALSE
    /\ connection = [ message_queue |-> <<>>, pending_acks |-> {}, batch |-> <<>>, flushing |-> FALSE, enqueued |-> 0 ]
    /\ merkle = [ op |-> "none", hashes |-> <<>>, previous_hash |-> GENESIS, merkle_root |-> GENESIS ]
    /\ irrigation_timer = [ minutes |-> [z \in Zones |-> 0], beat |-> FALSE ]
    /\ cycle_report = [ ran |-> FALSE, skipped |-> {}, error |-> FALSE ]
    /\ kriging_runs = [ sensor_measurements |-> <<>>, grids |-> <<>> ]
    /\ bayesian_filter = RecursiveBayesianFilter
    /\ to_sync = <<>>
    /\ mirror_sent = <<>>
    /\ delivered = 0
    /\ analysis = [ grid_cells |-> <<>>, field_capacity |-> field_capacity,
                    decision |-> analyze_zone_for_irrigation("field_01_zone1", "field_01",
                                     <<>>, field_capacity, wilting_point) ]
    /\ verify_result = NoReport
    /\ clock = 0
    /\ valve_states = states
    /\ active_irrigation = EmptyDict
    /\ pending = {}
    /\ audit_log = <<>>
    /\ last_decision = [ f \in {"field_01", "field_02"} |-> "none" ]
    /\ statistics = [ grids_generated |-> 0, irrigation_decisions |-> 0,
                      deep_percolation_alerts |-> 0 ]
    /\ grid_store = {}
    /\ is_cloud_controlled = FALSE
    /\ sync_state = "DISCONNECTED"
    /\ elapsed = 0
    /\ hb_pc = "idle"
    /\ sleep_left = 0
    /\ rx_pc = "idle"
    /\ inbox = <<>>
    /\ period_entries = 0
    /\ period_callbacks = 0

Init == InitFrom([ v \in Valves |-> "CLOSED" ])

\* the measurement ledger
NextLedger ==
    \/ \E p \in 1..Len(Probes), vwc \in VWCReadings,
          prev \in {GENESIS, chain_state.last_hash}, fault \in Faults :
          StoreMeasurement(p, vwc, prev, fault)
    \/ \E readings \in [1..Len(Probes) -> VWCReadings],
          faults \in [1..Len(Probes) -> Faults] :
          CollectAndProcessMeasurements(readings, faults)
    \/ VerifyChainIntegrity
    \/ AdvanceClock

SpecLedger == Init /\ [][NextLedger]_vars

\* the store under callers that offer records of their own making
NextIngest ==
    \/ \E p \in 1..Len(Probes), vwc \in OfferedVwc,
          prev \in {GENESIS, chain_state.last_hash}, fault \in Faults :
          StoreMeasurement(p, vwc, prev, fault)
    \/ AdvanceClock

SpecIngest == Init /\ [][NextIngest]_vars

\* the ledger over the years: appends, the passing of days, archive runs
NextArchive ==
    \/ \E p \in 1..Len(Probes), vwc \in VWCReadings :
          StoreMeasurement(p, vwc, chain_state.last_hash, "none")
    \/ \E days \in {1, 30 * retention_months} : DaysPass(days)
    \/ ArchiveOldData

SpecArchive == Init /\ [][NextArchive]_vars

\* the zone analysis on every grid and field capacity
NextAnalysis ==
    \E grid_cells \in ZoneGrids, fc \in FieldCapacities : AnalyzeZone(grid_cells, fc)

SpecAnalysis == Init /\ [][NextAnalysis]_vars

\* the valve dispatcher
NextVRI ==
    \/ \E zone \in Zones, decision \in Decisions, valve_mapping \in ValveMappings :
          ExecuteIrrigationDecision(zone, decision, valve_mapping)
    \/ \E c \in pending, success \in BOOLEAN : CompleteValveCommand(c, success)
    \/ \E valve_id \in Valves, command \in {"open", "close"}, user_id \in Users,
          log_fault \in BOOLEAN :
          ManualOverride(valve_id, command, user_id, log_fault)
    \/ \E user_id \in Users \cup {"system"} : EmergencyStopAll(user_id)

SpecVRI == Init /\ [][NextVRI]_vars

\* manual_override called on valves in any state of the ValveState enum; the
\* controller itself never assigns FAULT, OPENING or CLOSING
InitOverride == \E states \in [Valves -> ValveState] : InitFrom(states)

NextOverride ==
    \/ \E valve_id \in Valves, command \in {"open", "close"}, user_id \in Users,
          log_fault \in BOOLEAN :
          ManualOverride(valve_id, command, user_id, log_fault)
    \/ \E zone \in Zones, decision \in Decisions :
          ExecuteIrrigationDecision(zone, decision, PilotWiring)
    \/ \E c \in pending, success \in BOOLEAN : CompleteValveCommand(c, success)

SpecOverride == InitOverride /\ [][NextOverride]_vars

\* an operator at the controller the engine builds: overrides and emergency
\* stops beside the automatic commands over the pilot wiring
NextOperator ==
    \/ \E valve_id \in Valves, command \in {"open", "close"}, user_id \in Users,
          log_fault \in BOOLEAN :
          ManualOverride(valve_id, command, user_id, log_fault)
    \/ \E zone \in Zones, decision \in Decisions :
          ExecuteIrrigationDecision(zone, decision, PilotWiring)
    \/ \E c \in pending, success \in BOOLEAN : CompleteValveCommand(c, success)
    \/ \E user_id \in Users \cup {"system"} : EmergencyStopAll(user_id)

SpecOperator == Init /\ [][NextOperator]_vars

\* the filter under predict and update calls
NextFilter ==
    \/ \E zone_id \in FilterZones, depth_inches \in FilterDepths, et \in EtRates,
          hours \in HoursSince : Predict(zone_id, depth_inches, et, hours)
    \/ \E zone_id \in FilterZones, depth_inches \in FilterDepths,
          observed_vwc \in ObservedVwc, predicted_vwc \in ObservedVwc \cup {900000, 1000000} :
          Update(zone_id, depth_inches, observed_vwc, predicted_vwc)

SpecFilter == Init /\ [][NextFilter]_vars

\* the filter under predict and update calls that interleave two zones
ZonePair == {"field_01", "field_02"}
NextZones ==
    \/ \E zone_id \in ZonePair, et \in EtRates, hours \in HoursSince :
          Predict(zone_id, PrimaryDepth, et, hours)
    \/ \E zone_id \in ZonePair, observed_vwc \in ObservedVwc,
          predicted_vwc \in ObservedVwc \cup {900000, 1000000} :
          Update(zone_id, PrimaryDepth, observed_vwc, predicted_vwc)

SpecZones == Init /\ [][NextZones]_vars

\* callers of the three places that compute a batch Merkle root
NextMerkle ==
    \/ \E batch \in Batches : ComputeMerkleRoot(batch)
    \/ \E batch \in Batches, previous_hash \in PreviousHashes : HashBatch(batch, previous_hash)
    \/ \E batch \in Batches : BatchComputeMerkleRoot(batch)

SpecMerkle == Init /\ [][NextMerkle]_vars

\* callers of one ResilientConnection
NextConnection ==
    \/ \E payload_len \in PayloadSizes, priority \in Priorities :
          Enqueue(payload_len, priority)
    \/ \E max_batch_size \in MaxBatchSizes : Flush(max_batch_size)
    \/ \E success \in BOOLEAN : Transmitted(success)

SpecConnection == Init /\ [][NextConnection]_vars

\* generate_virtual_grid run and run again while time passes
NextKriging ==
    \/ \E sensor_measurements \in ProbeLists : GenerateVirtualGrid(sensor_measurements)
    \/ GenerateAgain
    \/ AdvanceClock

SpecKriging == Init /\ [][NextKriging]_vars

\* the grid store under callers that store snapshots while time passes
NextGridStore ==
    \/ \E i \in 1..Len(Fields) : \E cells \in Snapshots(Fields[i]) :
          StoreGrid(Fields[i], cells)
    \/ AdvanceClock

SpecGridStore == Init /\ [][NextGridStore]_vars

\* the grid cycle between measurements, the passing of time and operators who
\* open and close valves
NextCycle ==
    \/ \E p \in 1..Len(Probes), vwc \in VWCReadings :
          StoreMeasurement(p, vwc, chain_state.last_hash, "none")
    \/ AdvanceClock
    \/ GenerateAllGrids
    \/ \E valve_id \in Valves, command \in {"open", "close"}, user_id \in Users :
          ManualOverride(valve_id, command, user_id, FALSE)

SpecCycle == Init /\ [][NextCycle]_vars

\* the decision rules on grids of ten cells
NextRules ==
    \E grid_cells \in TenCellGrids, fc \in FieldCapacities : AnalyzeZone(grid_cells, fc)

SpecRules == Init /\ [][NextRules]_vars

\* the coefficients of a zone under update_from_residual
NextSoil ==
    \E zone_id \in FilterZones, residual \in Residuals :
        UpdateFromResidual(zone_id, residual)

SpecSoil == Init /\ [][NextSoil]_vars

\* the measurement cycle and the cloud sync loop of one hub, and its mirror
NextMirror ==
    \/ \E ok \in BOOLEAN : Connect(ok)
    \/ \E readings \in [1..Len(Probes) -> VWCReadings], ok \in BOOLEAN :
          MeasurementCycle(readings, [ i \in 1..Len(Probes) |-> "none" ], ok)
    \/ \E ok \in BOOLEAN : SyncMeasurement(ok)
    \/ \E ok \in BOOLEAN : CloudSync(ok)
    \/ MirrorReceive

SpecMirror == Init /\ [][NextMirror]_vars

\* the measurement cycle of a hub whose store may fail, and its mirror
NextMirrorLog ==
    \/ \E ok \in BOOLEAN : Connect(ok)
    \/ \E readings \in [1..Len(Probes) -> VWCReadings],
          faults \in [1..Len(Probes) -> {"none", "insert"}], ok \in BOOLEAN :
          MeasurementCycle(readings, faults, ok)
    \/ \E ok \in BOOLEAN : SyncMeasurement(ok)
    \/ MirrorReceive

SpecMirrorLog == Init /\ [][NextMirrorLog]_vars

\* the loops go on and the websocket delivers what was written to it
FairMirror ==
    /\ SpecMirror
    /\ WF_vars(\E ok \in BOOLEAN : SyncMeasurement(ok))
    /\ WF_vars(\E ok \in BOOLEAN : CloudSync(ok))
    /\ WF_vars(MirrorReceive)

\* the measurement cycle, the grid cycle and the valve command path of one hub
NextPipeline ==
    \/ \E p \in 1..Len(Probes), vwc \in VWCReadings :
          StoreMeasurement(p, vwc, chain_state.last_hash, "none")
    \/ \E readings \in [1..Len(Probes) -> VWCReadings] :
          CollectAndProcessMeasurements(readings, [i \in 1..Len(Probes) |-> "none"])
    \/ AdvanceClock
    \/ GenerateAllGrids
    \/ \E zone \in Zones, decision \in Decisions :
          ExecuteIrrigationDecision(zone, decision, PilotWiring)
    \/ \E c \in pending, success \in BOOLEAN : CompleteValveCommand(c, success)

SpecPipeline == Init /\ [][NextPipeline]_vars

\* the sync protocol
NextSync ==
    \/ \E ok \in BOOLEAN : Connect(ok)
    \/ Tick
    \/ \E ok \in BOOLEAN : HeartbeatSend(ok)
    \/ HeartbeatCheck
    \/ FailoverRequestSent
    \/ \E msg \in MirrorMessages : MirrorSend(msg)
    \/ ReceiveMessage
    \/ ExitFailoverMode

SpecSync == Init /\ [][NextSync]_vars

\* the hub: the sync session next to the automatic valve command path
NextHub ==
    \/ Connect(TRUE)
    \/ Tick
    \/ HeartbeatSend(TRUE)
    \/ HeartbeatCheck
    \/ FailoverRequestSent
    \/ \E msg \in {"heartbeat_ack", "failover_command", "recovery_command"} :
          MirrorSend(msg)
    \/ ReceiveMessage
    \/ ExitFailoverMode
    \/ \E decision \in Decisions :
          Running /\ ExecuteIrrigationDecision("field_01_zone1", decision, PilotWiring)
    \/ \E c \in pending, success \in BOOLEAN :
          Running /\ CompleteValveCommand(c, success)

SpecHub == Init /\ [][NextHub]_vars

\* the sync session over a link that stays open: no send raises, no close
NextLink ==
    \/ Connect(TRUE)
    \/ Tick
    \/ HeartbeatSend(TRUE)
    \/ HeartbeatCheck
    \/ FailoverRequestSent
    \/ \E msg \in {"heartbeat_ack", "failover_command", "recovery_command"} :
          MirrorSend(msg)
    \/ ReceiveMessage
    \/ ExitFailoverMode

SpecLink == Init /\ [][NextLink]_vars

\* every ready task of the event loop gets its turn and time passes; the
\* mirror is not obliged to send anything
FairLink ==
    /\ SpecLink
    /\ SF_vars(Tick)
    /\ SF_vars(HeartbeatSend(TRUE))
    /\ SF_vars(HeartbeatCheck)
    /\ SF_vars(FailoverRequestSent)
    /\ WF_vars(ReceiveMessage)
    /\ WF_vars(ExitFailoverMode)

(***************************************************************************)
(* Properties of the measurement ledger                                    *)
(***************************************************************************)
\* every row names the hash of the row stored before it, the first the genesis
ChainedFromGenesis(rows) ==
    \A i \in 1..Len(rows) :
        rows[i].previous_hash =
            IF i = 1 THEN GENESIS ELSE rows[i - 1].measurement_hash

LastStoredHash(rows) ==
    IF rows = <<>> THEN GENESIS ELSE rows[Len(rows)].measurement_hash

\* C1: hash-chain continuity of the log: every stored measurement's previous_hash
\* is the measurement_hash of the record stored immediately before it (genesis
\* for the first), and chain_state.last_hash is the hash of the last stored record.
C1_ChainContinuity ==
    /\ ChainedFromGenesis(measurements)
    /\ chain_state.last_hash = LastStoredHash(measurements)

\* C2: create/verify round trip: verify_chain_integrity over records made by
\* create_measurement_with_integrity and chained from the genesis hash reports
\* valid = true and a computed final hash equal to the stored last hash.
C2_CreateVerifyRoundTrip ==
    [][ ( /\ VerifyChainIntegrity
          /\ measurements # <<>>
          /\ ChainedFromGenesis(measurements)
          /\ chain_state.last_hash = LastStoredHash(measurements) )
        => ( /\ verify_result'.valid
             /\ verify_result'.computed_final_hash = chain_state.last_hash ) ]_vars

\* C10: store_measurement is atomic with respect to the chain-state row: every
\* step of the store either appends rows and moves chain_state (last_hash,
\* total_records) with them, or leaves both the table and chain_state unchanged.
C10_StoreAtomic ==
    [][ LET old == Len(measurements)
            new == Len(measurements')
        IN  /\ new >= old
            /\ SubSeq(measurements', 1, old) = measurements
            /\ chain_state'.total_records = chain_state.total_records + (new - old)
            /\ chain_state'.last_hash =
                   IF new = old THEN chain_state.last_hash
                   ELSE measurements'[new].measurement_hash ]_<<measurements, chain_state>>

\* a store call failed on a log that already holds a record, and the log and
\* its chain_state row still agree
C10_Witness ==
    /\ last_stored = 0
    /\ measurements # <<>>
    /\ chain_state.total_records = Len(measurements)
    /\ chain_state.last_hash = LastStoredHash(measurements)


(***************************************************************************)
(* Valve dispatcher properties                                             *)
(***************************************************************************)
\* the legal transitions of a valve
LegalTransition(old, new) ==
    \/ old = "CLOSED" /\ new = "OPENING"
    \/ old = "OPENING" /\ new \in {"OPEN", "FAULT"}
    \/ old = "OPEN" /\ new = "CLOSING"
    \/ old = "CLOSING" /\ new \in {"CLOSED", "FAULT"}
    \/ new = "MANUAL_OVERRIDE"
    \/ old = "MANUAL_OVERRIDE" /\ new = "CLOSED"

\* C3: every change the dispatcher makes to a valve's state is one of the
\* legal transitions (CLOSED->OPENING, OPENING->OPEN|FAULT, OPEN->CLOSING,
\* CLOSING->CLOSED|FAULT, any->MANUAL_OVERRIDE, MANUAL_OVERRIDE->CLOSED).
C3_LegalTransitions ==
    [][\A v \in Valves :
          valve_states'[v] # valve_states[v]
              => LegalTransition(valve_states[v], valve_states'[v])]_vars

\* C5: when emergency_stop_all returns no valve is OPEN or OPENING.
C5_EmergencyStopClosesAll ==
    [][(\E user_id \in Users \cup {"system"} : EmergencyStopAll(user_id))
          => \A v \in Valves : valve_states'[v] \notin {"OPEN", "OPENING"}]_vars


(***************************************************************************)
(* Grid cycle properties                                                   *)
(***************************************************************************)
\* a recent reading of a probe of the field at depth >= 42 in above the threshold
DeepReading(field_id) ==
    \E i \in 1..Len(measurements) :
        /\ measurements[i].timestamp >= clock - 1
        /\ measurements[i].sensor_id \in FieldSensors(field_id)
        /\ measurements[i].depth_inches >= 42
        /\ measurements[i].volumetric_water_content > deep_percolation_threshold

AuditCount(log, event_type) ==
    Cardinality({ i \in 1..Len(log) : log[i].event_type = event_type })

\* C4: a grid cycle that runs while a field's recent measurements hold a
\* reading at depth >= 42 in with VWC above 0.42 decides DEEP_PERCOLATION_RISK
\* for the field's zone, leaves no valve OPEN and writes one audit event of
\* kind deep_percolation_alert.
C4_DeepPercolationInterlock ==
    [][\A field_id \in {"field_01", "field_02"} :
          GenerateAllGrids /\ DeepReading(field_id)
              => /\ last_decision'[field_id] = "DEEP_PERCOLATION_RISK"
                 /\ \A v \in Valves : valve_states'[v] # "OPEN"
                 /\ AuditCount(audit_log', "deep_percolation_alert")
                      = AuditCount(audit_log, "deep_percolation_alert") + 1]_vars



(***************************************************************************)
(* Failover properties                                                     *)
(***************************************************************************)
\* C6: while the sync state is FAILOVER_ACTIVE the hub issues no valve
\* command from an irrigation decision and changes no valve state.
C6_NoActuationInFailover ==
    [][sync_state = "FAILOVER_ACTIVE"
          => pending' \subseteq pending /\ valve_states' = valve_states]_vars

\* C7: whenever the session is CONNECTED and no heartbeat_ack has arrived for
\* longer than failover_timeout, the hub eventually enters FAILOVER_ACTIVE
\* (unless an ack arrives after all or the session ends as DISCONNECTED).
C7_FailoverDetection ==
    (sync_state = "CONNECTED" /\ elapsed > failover_timeout)
        ~> (\/ sync_state \in {"FAILOVER_ACTIVE", "DISCONNECTED"}
            \/ elapsed <= failover_timeout)

\* C8: within one period of heartbeat silence (since the last heartbeat_ack)
\* the hub enters FAILOVER_ACTIVE at most once and invokes the failover
\* callback at most once.
C8_SingleFailover ==
    period_entries <= 1 /\ period_callbacks <= 1

\* C9: once the hub is in FAILOVER_ACTIVE and the mirror has sent
\* recovery_command on the open link, the hub eventually re-enters CONNECTED,
\* whatever messages precede the recovery_command.
C9_RecoveryLiveness ==
    (/\ sync_state = "FAILOVER_ACTIVE"
     /\ \E i \in 1..Len(inbox) : inbox[i] = "recovery_command")
        ~> (sync_state = "CONNECTED")

(***************************************************************************)
(* Properties of the hot store                                             *)
(***************************************************************************)
\* C11: storing a measurement whose measurement_hash is already in the log
\* adds no row and leaves chain_state.last_hash and total_records unchanged.
C11_DuplicateStoreIsNoOp ==
    [][offered_duplicate'
          => /\ measurements' = measurements
             /\ chain_state' = chain_state]_vars

\* a store call was handed the hash of the one stored record and returned False
C11_Witness ==
    /\ offered_duplicate
    /\ last_stored = 0
    /\ Len(measurements) = 1
    /\ chain_state.total_records = 1


\* the rows of a sequence of records
Records(rows) == { rows[i] : i \in 1..Len(rows) }

\* C12: after any sequence of appends and archive runs, get_chain_integrity
\* reports the chain as valid and a length equal to the number of records
\* appended minus the number archived, the rows left in the table.
C12_ChainLengthAfterArchive ==
    /\ get_chain_integrity(DB).valid
    /\ get_chain_integrity(DB).total_records
           = (Len(measurements) + Len(deleted)) - Len(deleted)

\* C13: every record archive_old_data has deleted from the table is in an
\* archive file, whichever run wrote it there.
C13_ArchiveLosesNothing ==
    \A i \in 1..Len(deleted) :
        \E f \in DOMAIN archive : deleted[i] \in Records(archive[f])


\* the hash of row i as it was made at creation, recomputed from the row's
\* fields and the measurement_hash of the row before it
RecomputedHash(rows, i) ==
    hash_measurement(rows[i].sensor_id, rows[i].timestamp, rows[i].depth_inches,
                     rows[i].volumetric_water_content,
                     IF i = 1 THEN GENESIS ELSE rows[i - 1].measurement_hash,
                     [soil_temp_c     |-> rows[i].soil_temperature_c,
                      water_potential |-> rows[i].soil_water_potential])

\* C14: when a stored record's measurement_hash differs from the hash
\* recomputed from its fields and its predecessor's hash, get_chain_integrity
\* reports the chain as not valid.
C14_TamperingDetected ==
    (\E i \in 1..Len(measurements) :
         measurements[i].measurement_hash # RecomputedHash(measurements, i))
        => ~get_chain_integrity(DB).valid


(***************************************************************************)
(* Properties of the decision engine and the valve dispatcher              *)
(***************************************************************************)
\* C15: every decision analyze_zone_for_irrigation returns with status
\* IRRIGATION_RECOMMENDED, for a non-empty grid, has
\* 0 < recommended_duration_minutes <= 120 and confidence > 0.7.
C15_RecommendedIsActionable ==
    (analysis.grid_cells # <<>> /\ analysis.decision.status = "IRRIGATION_RECOMMENDED")
        => /\ 0 < analysis.decision.recommended_duration_minutes
           /\ analysis.decision.recommended_duration_minutes <= 120
           /\ analysis.decision.confidence > 7000


\* C16: when a valve command is not acknowledged within the deadline
\* (_send_valve_command returns False) the valve's state becomes FAULT.
C16_TimeoutFaultsValve ==
    [][\A c \in pending :
          CompleteValveCommand(c, FALSE) => valve_states'[c.valve_id] = "FAULT"]_vars

RowOf(h) ==
    IF \E i \in 1..Len(measurements) : measurements[i].measurement_hash = h
    THEN CHOOSE i \in 1..Len(measurements) : measurements[i].measurement_hash = h
    ELSE 0

\* C19: when a state_sync message carrying last_hash h is sent, the
\* measurement message of h and of every record appended before h has been
\* sent before it.
C19_StateSyncAfterMeasurements ==
    \A k \in StateSyncs(mirror_sent, Len(mirror_sent)) :
        \A i \in 1..RowOf(mirror_sent[k].hash) :
            \E j \in 1..(k - 1) :
                /\ mirror_sent[j].type = "measurement"
                /\ mirror_sent[j].hash = measurements[i].measurement_hash

\* the first n hashes of the log, in append order
LogHashes(n) == [ i \in 1..n |-> measurements[i].measurement_hash ]

\* C20: every measurement stored in the hub's log is eventually delivered to
\* the mirror, and the mirror's measurement chain is always a gap-free prefix
\* of the hub's log in append order.
C20_MirrorResumes ==
    /\ [](/\ Len(measurement_chain) <= Len(measurements)
          /\ measurement_chain = LogHashes(Len(measurement_chain)))
    /\ \A i \in 1..MaxRecords :
           (Len(measurements) >= i)
               ~> (/\ Len(measurements) >= i
                   /\ \E j \in 1..Len(measurement_chain) :
                          measurement_chain[j] = measurements[i].measurement_hash)


\* C21: a filter rebuilt by restore_state from the get_state_dict snapshot of
\* a filter produces, for every prediction input, the prediction the original
\* filter produces: the same moisture and the same variance
C21_SnapshotRoundTrip ==
    \A zone_id \in FilterZones, depth_inches \in FilterDepths,
       et \in EtRates, hours \in HoursSince :
        LET restored == restore_state(RecursiveBayesianFilter,
                                      get_state_dict(bayesian_filter))
            a == predict(bayesian_filter, zone_id, depth_inches, et, hours).state
            b == predict(restored, zone_id, depth_inches, et, hours).state
        IN  /\ a.predicted_vwc = b.predicted_vwc
            /\ a.prediction_variance = b.prediction_variance

\* C22: after any sequence of updates of a zone's coefficients, whatever the
\* residuals, wilting_point <= field_capacity <= 0.5 and the three texture
\* ratios sum to one
C22_CoefficientsStayPhysical ==
    \A z \in DOMAIN bayesian_filter.coefficients :
        LET c == bayesian_filter.coefficients[z]
        IN  /\ c.wilting_point <= c.field_capacity
            /\ c.field_capacity <= 5000 * c.den
            /\ c.sand_ratio + c.silt_ratio + c.clay_ratio = c.den

\* a zone whose sand or clay ratio has been clamped and re-normalised: its
\* ratios are no longer multiples of 1/400
C22_Witness ==
    \E z \in DOMAIN bayesian_filter.coefficients :
        /\ bayesian_filter.coefficients[z].update_count > 0
        /\ 400 % bayesian_filter.coefficients[z].den # 0


(***************************************************************************)
(* Properties of the virtual grid                                          *)
(***************************************************************************)
\* C23: two runs of generate_virtual_grid on identical inputs, at whatever
\* times, return identical cells, cell hashes included
C23_GridDeterministic ==
    \A i, j \in 1..Len(kriging_runs.grids) :
        kriging_runs.grids[i] = kriging_runs.grids[j]

\* the readings within 5 m of a cell, by their index in the list at the depth
ProbesNear(lat) ==
    { k \in 1..Len(kriging_runs.sensor_measurements) :
        LET m == kriging_runs.sensor_measurements[k]
            d == IF lat < m.latitude THEN m.latitude - lat ELSE lat - m.latitude
        IN  d < tolerance_meters }

\* C24: every cell with is_hard_anchor = true has estimation_variance 0 and
\* the exact reading of a probe within 5 m of it as its estimated_vwc, also
\* when readings share a sensor id or have none
C24_AnchorsCarryProbeReading ==
    \A r \in 1..Len(kriging_runs.grids) :
        \A i \in 1..Len(kriging_runs.grids[r]) :
            LET cell == kriging_runs.grids[r][i]
            IN  cell.is_hard_anchor
                    => /\ cell.estimation_variance = 0
                       /\ \E k \in ProbesNear(cell.latitude) :
                              kriging_runs.sensor_measurements[k].vwc = cell.estimated_vwc


\* C25: the log never holds two rows with the same (sensor_id, timestamp,
\* depth_inches): a record offered with the triple of a stored record adds no
\* row, whatever its previous_hash
C25_IngestIdempotentByTriple ==
    \A i, j \in 1..Len(measurements) :
        (/\ measurements[i].sensor_id = measurements[j].sensor_id
         /\ measurements[i].timestamp = measurements[j].timestamp
         /\ measurements[i].depth_inches = measurements[j].depth_inches)
            => i = j


\* C26: every stored record has a volumetric water content in [0, 1]: a record
\* offered with a value outside the range is rejected and the log is unchanged
C26_InvalidNeverPersisted ==
    \A i \in 1..Len(measurements) :
        /\ measurements[i].volumetric_water_content >= 0
        /\ measurements[i].volumetric_water_content <= 10000000


(***************************************************************************)
(* Properties of the grid store                                            *)
(***************************************************************************)
\* the snapshots with cells of the field, stamped at or before the time
SnapshotsUpTo(field_id, timestamp) ==
    { r.snapshot : r \in SelectedRows(grid_store, field_id, timestamp) }

\* C27: get_grid_at_time(field, t) returns only cells of one snapshot, a most
\* recent one of the field with timestamp <= t, never a mixture with cells of
\* older snapshots
C27_OneSnapshotReturned ==
    \A i \in 1..Len(Fields), t \in 0..MaxClock :
        \A result \in get_grid_at_time(grid_store, Fields[i], t) :
            result # {} =>
                \E s \in SnapshotsUpTo(Fields[i], t) :
                    /\ \A o \in SnapshotsUpTo(Fields[i], t) : o.timestamp <= s.timestamp
                    /\ \A r \in result : r.snapshot = s


(***************************************************************************)
(* Properties of the grid cycle without measurements                       *)
(***************************************************************************)
\* the recent measurements of a field, as the cycle selects them
FieldMeasurements(field_id) ==
    SelectSeq(get_measurements(measurements, clock),
              LAMBDA m : m.sensor_id \in FieldSensors(field_id))

OrderedRules(grid_cells, fc) ==
    LET n      == Len(grid_cells)
        target == (fc * 9) \div 10
        total  == SumVwc(grid_cells, 1)
        below  == Cardinality({ i \in 1..n : grid_cells[i].estimated_vwc < target })
        above  == Cardinality({ i \in 1..n : grid_cells[i].estimated_vwc > fc })
        status ==
            IF \E i \in 1..n : /\ grid_cells[i].depth_inches >= 42
                               /\ grid_cells[i].estimated_vwc > 4200000
            THEN "DEEP_PERCOLATION_RISK"
            ELSE IF 2 * above > n THEN "SATURATION_DETECTED"
            ELSE IF n > 0 /\ total < target * n /\ 10 * below >= 3 * n
            THEN "IRRIGATION_RECOMMENDED"
            ELSE "NO_IRRIGATION_NEEDED"
    IN  [ status |-> status,
          duration |-> IF status = "IRRIGATION_RECOMMENDED"
                       THEN Min(((target * n - total) * 3) \div (n * 20000), 120)
                       ELSE 0 ]

\* C29: the decision of analyze_zone_for_irrigation is the decision of the
\* ordered rules, in status and duration, for every cell set, also when
\* exactly 30% of the cells are below the target
C29_DecisionMatchesRules ==
    LET ref == OrderedRules(analysis.grid_cells, analysis.field_capacity)
    IN  /\ analysis.decision.status = ref.status
        /\ analysis.decision.recommended_duration_minutes = ref.duration


(***************************************************************************)
(* Dispatch of the decisions of the grid cycle                             *)
(***************************************************************************)
\* the decision the cycle computes for the zone of a stored snapshot
CycleDecision(s) ==
    analyze_zone_for_irrigation(
        IF s.field_id = "field_01" THEN "field_01_zone1" ELSE "field_02_zone1",
        s.field_id, s.cells, field_capacity, wilting_point)

\* C30: when the decision a grid cycle computes for a zone is fireable
\* (IRRIGATION_RECOMMENDED, confidence > 0.7, duration > 0) and the valves are
\* CLOSED, an open command for the zone is sent to the valve dispatcher in
\* that cycle
C30_CycleDispatchesDecision ==
    [][GenerateAllGrids =>
          \A s \in grid_store' \ grid_store :
              (/\ should_irrigate(CycleDecision(s))
               /\ \A v \in Valves : valve_states[v] = "CLOSED")
                  => \E c \in pending' :
                         /\ c.zone_id = CycleDecision(s).zone_id
                         /\ c.command = "open"]_vars


(***************************************************************************)
(* Properties of the automatic dispatch                                    *)
(***************************************************************************)
\* C31: execute_irrigation_decision sends an open command only for a
\* fireable decision and a valve that is CLOSED, and it never turns a valve
\* to OPEN that is in FAULT, MANUAL_OVERRIDE, OPENING or CLOSING
C31_OpensOnlyClosedOnFireable ==
    [][/\ \A zone \in Zones, decision \in Decisions, valve_mapping \in ValveMappings :
            (/\ ExecuteIrrigationDecision(zone, decision, valve_mapping)
             /\ \E c \in pending' \ pending : c.command = "open")
                => /\ should_irrigate(decision)
                   /\ valve_states[valve_mapping[zone]] = "CLOSED"
       /\ \A v \in Valves :
            (valve_states'[v] = "OPEN" /\ valve_states[v] # "OPEN")
                => valve_states[v] = "CLOSED"]_vars


\* automatic commands over the pilot wiring while the wall clock goes on
NextExpiry ==
    \/ \E zone \in Zones, decision \in Decisions :
          ExecuteIrrigationDecision(zone, decision, PilotWiring)
    \/ \E c \in pending, success \in BOOLEAN : CompleteValveCommand(c, success)
    \/ \E minutes \in ElapsedSteps : TimePasses(minutes)

SpecExpiry == Init /\ [][NextExpiry]_vars

\* every awaited valve command returns and time passes; nobody is obliged to
\* send a further decision
FairExpiry ==
    /\ SpecExpiry
    /\ WF_vars(\E c \in pending, success \in BOOLEAN : CompleteValveCommand(c, success))
    /\ WF_vars(\E minutes \in ElapsedSteps : TimePasses(minutes))

\* the zone's valve is OPEN and the duration it was opened for has passed
Expired(zone) ==
    /\ zone \in DOMAIN active_irrigation
    /\ valve_states[active_irrigation[zone].valve_id] = "OPEN"
    /\ irrigation_timer.minutes[zone] >= active_irrigation[zone].duration_minutes

\* C32: a valve opened with a commanded duration does not stay open for ever:
\* once the duration has expired the valve leaves OPEN, with no further
\* decision or command for the zone
C32_OpenValveClosesOnExpiry ==
    \A zone \in Zones :
        Expired(zone) ~> valve_states[PilotWiring[zone]] # "OPEN"

\* C33: a valve in MANUAL_OVERRIDE leaves that state only by an operator's
\* manual_override call: neither execute_irrigation_decision nor
\* emergency_stop_all changes the state of such a valve
C33_OverrideLeftOnlyByOperator ==
    [][\A v \in Valves :
          (valve_states[v] = "MANUAL_OVERRIDE" /\ valve_states'[v] # "MANUAL_OVERRIDE")
              => \E command \in {"open", "close"}, user_id \in Users, log_fault \in BOOLEAN :
                    ManualOverride(v, command, user_id, log_fault)]_vars

(* Properties of the filter's update *)
\* the coefficients a zone has, the defaults when it has not been referred to
CoefficientsOf(f, zone_id) == get_or_create_coefficients(f, zone_id).coefficients[zone_id]

\* C34: update leaves the zone's parameters unchanged when
\* |observed - predicted| <= 0.02, and changes the textural fractions and adds
\* one to the update count whenever |observed - predicted| > 0.02
C34_UpdateAboveTwoPoints ==
    [][\A zone_id \in FilterZones, depth_inches \in FilterDepths,
          observed_vwc \in ObservedVwc, predicted_vwc \in ObservedVwc \cup {900000, 1000000} :
          Update(zone_id, depth_inches, observed_vwc, predicted_vwc)
              => LET before == CoefficientsOf(bayesian_filter, zone_id)
                     after  == CoefficientsOf(bayesian_filter', zone_id)
                     d      == observed_vwc - predicted_vwc
                 IN  IF (IF d < 0 THEN -d ELSE d) <= ResidualFloor
                     THEN after = before
                     ELSE /\ <<after.sand_ratio, after.silt_ratio, after.clay_ratio, after.den>>
                               # <<before.sand_ratio, before.silt_ratio,
                                    before.clay_ratio, before.den>>
                          /\ after.update_count = before.update_count + 1]_vars

\* what the filter holds for a zone: its coefficients, if it has any, and its
\* cached predictions
ZoneState(f, zone_id) ==
    [ coefficients |-> IF zone_id \in DOMAIN f.coefficients
                       THEN <<f.coefficients[zone_id]>> ELSE <<>>,
      last_predictions |-> [ k \in {j \in DOMAIN f.last_predictions : j[1] = zone_id} |->
                               f.last_predictions[k] ] ]

\* C35: predict and update on one zone leave the soil parameters and the
\* cached predictions of every other zone as they were, in any interleaving
\* of calls on several zones
C35_OtherZonesUntouched ==
    [][\A zone_id \in ZonePair :
          (\/ \E et \in EtRates, hours \in HoursSince :
                 Predict(zone_id, PrimaryDepth, et, hours)
           \/ \E observed_vwc \in ObservedVwc,
                 predicted_vwc \in ObservedVwc \cup {900000, 1000000} :
                 Update(zone_id, PrimaryDepth, observed_vwc, predicted_vwc))
              => \A other \in ZonePair \ {zone_id} :
                    ZoneState(bayesian_filter', other) = ZoneState(bayesian_filter, other)]_vars

\* both zones have a cached prediction and one of them has learned from a
\* residual while the other still has the default parameters
C35_Witness ==
    /\ \A z \in ZonePair : <<z, PrimaryDepth>> \in DOMAIN bayesian_filter.last_predictions
    /\ \E a, b \in ZonePair :
          /\ a \in DOMAIN bayesian_filter.coefficients
          /\ b \in DOMAIN bayesian_filter.coefficients
          /\ bayesian_filter.coefficients[a].update_count > 0
          /\ bayesian_filter.coefficients[b].update_count = 0
          /\ bayesian_filter.last_predictions[<<a, PrimaryDepth>>].predicted_vwc
                # bayesian_filter.last_predictions[<<b, PrimaryDepth>>].predicted_vwc

(* Properties of the batch Merkle roots *)
\* the reduction of a list of hashes: the genesis hash for the empty list, the
\* element of a one-element list, and otherwise the reduction of the list of
\* parents of its pairs, the last element of an odd list paired with itself
RECURSIVE MerkleReduction(_)
MerkleReduction(hashes) ==
    IF hashes = <<>> THEN GENESIS
    ELSE IF Len(hashes) = 1 THEN hashes[1]
    ELSE MerkleReduction(
             [ i \in 1..((Len(hashes) + 1) \div 2) |->
                 <<"sha256", hashes[2 * i - 1],
                   hashes[IF 2 * i <= Len(hashes) THEN 2 * i ELSE 2 * i - 1]>> ])

\* C36: wherever the code computes a batch Merkle root, the root pairs
\* left/right level by level and duplicates the last element of an odd level;
\* one hash reduces to itself and the empty list to the genesis hash
C36_MerkleRootIsReduction ==
    merkle.op # "none" => merkle.merkle_root = MerkleReduction(merkle.hashes)

\* C37: every zone in active_irrigation has its recorded valve in state OPEN,
\* after any sequence of execute_irrigation_decision, manual_override and
\* emergency_stop_all calls
C37_ActiveZonesHaveOpenValves ==
    \A zone \in DOMAIN active_irrigation :
        valve_states[active_irrigation[zone].valve_id] = "OPEN"

\* C38: every measurement hash the measurement cycle sends to the mirror is the
\* hash of a record stored in the hub's log: the mirror's chain never holds a
\* hash that the hub's log lacks
C38_MirroredHashesAreStored ==
    \A k \in 1..Len(measurement_chain) :
        measurement_chain[k] \in StoredHashes(measurements)

(* Properties of the transmit queue *)
\* C39: the transmit queue stays ordered by priority, lower number first and
\* first in first out within a priority, after any sequence of enqueue and
\* flush calls, also when a transmission fails and the batch is re-queued
C39_QueueOrderedByPriority ==
    \A i, j \in 1..Len(connection.message_queue) :
        i < j =>
            LET a == connection.message_queue[i]
                b == connection.message_queue[j]
            IN  \/ a.priority < b.priority
                \/ a.priority = b.priority /\ a.message_id < b.message_id

====
